---- MODULE Spec2Model ----
(***************************************************************************)
(* Verification model of obsidian-spotify-sync: the reconciliation engine  *)
(* (SyncEngine, FileManager, FrontmatterWriter/Reader, MusicIdIndex,       *)
(* MusicMetadataEnricher, SpotifyLibrarySource) and the command/trigger    *)
(* layer of the plugin (main.ts).                                          *)
(*                                                                         *)
(* Conventions.  An absent (undefined) string is "", an absent date is 0.  *)
(* JSON.stringify comparisons are structural equality of records: notes    *)
(* written by the plugin keep the key order of class MusicFrontmatter.     *)
(* The metadata cache is taken to be current with the file content.        *)
(***************************************************************************)
EXTENDS Integers, Sequences, FiniteSets, TLC

(***************************************************************************)
(* Bounds of the model.                                                    *)
(***************************************************************************)
MaxPasses == 2
MaxRemoteChanges == 1
MaxDay == 2
MaxClockSteps == 4
MaxRunning == 2
MaxWriteFailures == 1
MaxSetCalls == 2
MaxUpdates == 3
MaxNoteDay == 3
MaxRemote == 101
MaxFinds == 2
MaxStarts == 2
MaxOnlineEvents == 2
MaxObservations == 3

(***************************************************************************)
(* Identifier kinds and MusicIdIndex.                                      *)
(***************************************************************************)
\* the kinds in the opposite order
priorityOrderReversed == <<"mbid", "isrc", "upc", "spotify_id", "spotify_uri">>

priorityOrder == <<"spotify_uri", "spotify_id", "upc", "isrc", "mbid">>

KindSet == {priorityOrder[i] : i \in 1..Len(priorityOrder)}

NoIds == [k \in KindSet |-> ""]

\* new MusicIdIndex([], ...): one empty exact-match map per kind (a Map is held as
\* its set of <<key, item>> entries), and the empty Set of items
EmptyIndex == [maps |-> [k \in KindSet |-> {}], items |-> {}]

MapHas(m, key) == \E p \in m : p[1] = key

MapGet(m, key) == (CHOOSE p \in m : p[1] = key)[2]

\* Map.set(key, item) replaces the entry of key
MapSet(m, key, item) == {p \in m : p[1] # key} \cup {<<key, item>>}

\* a set that registers the item under its spotify_uri only
IdxSetUriOnly(idx, ids, item) ==
    [maps  |-> [k \in DOMAIN idx.maps |->
                  IF k = "spotify_uri" /\ ids[k] # ""
                  THEN (idx.maps[k] \ {p \in idx.maps[k] : p[1] = ids[k]}) \cup {<<ids[k], item>>}
                  ELSE idx.maps[k]],
     items |-> idx.items \cup {item}]

\* MusicIdIndex.set: the item joins the Set; every kind with a truthy value is registered
IdxSet(idx, ids, item) ==
    [maps  |-> [k \in KindSet |->
                  IF ids[k] # "" THEN MapSet(idx.maps[k], ids[k], item)
                                 ELSE idx.maps[k]],
     items |-> idx.items \cup {item}]

\* a has that looks at the spotify_uri only
IdxHasUriOnly(idx, ids) ==
    ids["spotify_uri"] # "" /\ \E p \in idx.maps["spotify_uri"] : p[1] = ids["spotify_uri"]

\* MusicIdIndex.has
IdxHas(idx, ids) == \E k \in KindSet : ids[k] # "" /\ MapHas(idx.maps[k], ids[k])

\* the kinds of ids that hit the index, as positions of priorityOrder
IdxHits(idx, ids) ==
    {i \in 1..Len(priorityOrder) :
        /\ ids[priorityOrder[i]] # ""
        /\ MapHas(idx.maps[priorityOrder[i]], ids[priorityOrder[i]])}

Min(S) == CHOOSE x \in S : \A y \in S : x <= y

\* MusicIdIndex.get: the first hit in priority order; none is the caller's "undefined"
IdxGet(idx, ids, none) ==
    IF IdxHits(idx, ids) = {} THEN none
    ELSE LET k == priorityOrder[Min(IdxHits(idx, ids))] IN MapGet(idx.maps[k], ids[k])

RECURSIVE IdxFromSet(_)
\* MusicIdIndex.fromItems / the constructor with item => item.ids:
\* set(item.ids, item) for each item of the collection
IdxFromSet(items) ==
    IF items = {} THEN EmptyIndex
    ELSE LET it == CHOOSE x \in items : TRUE
         IN IdxSet(IdxFromSet(items \ {it}), it.ids, it)

(***************************************************************************)
(* The remote catalog (Spotify objects) and SpotifyLibrarySource.          *)
(***************************************************************************)
VARIABLES
    total_tracks,   \* total_tracks of the release b1 at the service
    trackItems      \* the tracks of the release b1 that the catalog holds

Tiers == {"artist", "album", "track"}

RawArtists == {"a1", "a2"}
RawAlbums == {"b1"}
RawTracks == trackItems

RawOf(tier) == CASE tier = "artist" -> RawArtists
                 [] tier = "album"  -> RawAlbums
                 [] tier = "track"  -> RawTracks

\* item.name: the two artists are namesakes
RawName(raw) == CASE raw \in RawArtists -> "Ann"
                  [] raw = "b1" -> "LP"
                  [] raw = "t1" -> "Song"
                  [] raw = "t2" -> "Tune"

\* item.artists / item.album of the Spotify object
RawArtistsOf(raw) == IF raw \in RawArtists THEN <<>> ELSE <<"a1">>
RawAlbumOf(raw) == "b1"
\* item.tracks.items of an album, by name
RawTracksOf(raw) == IF "t2" \in trackItems THEN <<"Song", "Tune">> ELSE <<"Song">>
\* album.total_tracks of the release the catalog holds
RawTotalTracks(raw) == total_tracks
\* added_at of the saved item, as a day number
RawAddedAt(raw) == 1

\* item.id, and item.uri as the service reports it at revision rev of the catalog
SpotifyId(raw) == raw
SpotifyUri(raw, rev) ==
    CASE raw = "a1" -> IF rev = 0 THEN "uri:a1" ELSE "uri:a1'"
      [] raw = "a2" -> "uri:a2"
      [] raw = "b1" -> "uri:b1"
      [] raw = "t1" -> "uri:t1"
      [] raw = "t2" -> "uri:t2"

\* SpotifyUtils.getSpotifyIds
getSpotifyIds(raw, rev) ==
    [k \in KindSet |-> CASE k = "spotify_id"  -> SpotifyId(raw)
                         [] k = "spotify_uri" -> SpotifyUri(raw, rev)
                         [] OTHER -> ""]

\* SpotifyUtils.getBestImageUrl / item.href
getBestImageUrl(raw) == "img"
Href(raw) == raw

NoAlbum == [kind |-> "undefined", title |-> "", ids |-> NoIds, linked |-> FALSE]
NullAlbum == [kind |-> "null", title |-> "", ids |-> NoIds, linked |-> FALSE]

\* toSimplifiedArtist; linked marks an object read back from a linked note
toSimplifiedArtist(raw, rev) ==
    [title |-> RawName(raw), ids |-> getSpotifyIds(raw, rev), linked |-> FALSE]

\* getSavedArtists' / getArtistsById's mapping of a Spotify artist
toArtist(raw, rev) ==
    [title |-> RawName(raw), image |-> getBestImageUrl(raw), ids |-> getSpotifyIds(raw, rev),
     addedAt |-> 0, spotify |-> Href(raw), in_library |-> "absent",
     artists |-> <<>>, album |-> NoAlbum, tracks |-> <<>>]

toAlbum(raw, rev, addedAt) ==
    [title |-> RawName(raw), image |-> getBestImageUrl(raw), ids |-> getSpotifyIds(raw, rev),
     addedAt |-> addedAt, spotify |-> Href(raw), in_library |-> "absent",
     artists |-> [i \in 1..Len(RawArtistsOf(raw)) |-> toSimplifiedArtist(RawArtistsOf(raw)[i], rev)],
     album |-> NoAlbum, tracks |-> RawTracksOf(raw)]

\* toTrack: ids are taken from item.album
toTrack(raw, rev, addedAt) ==
    [title |-> RawName(raw), image |-> getBestImageUrl(RawAlbumOf(raw)),
     ids |-> getSpotifyIds(RawAlbumOf(raw), rev),
     addedAt |-> addedAt, spotify |-> Href(raw), in_library |-> "absent",
     artists |-> [i \in 1..Len(RawArtistsOf(raw)) |-> toSimplifiedArtist(RawArtistsOf(raw)[i], rev)],
     album |-> IF RawTotalTracks(RawAlbumOf(raw)) = 1 THEN NullAlbum
               ELSE [kind |-> "album", title |-> RawName(RawAlbumOf(raw)),
                     ids |-> getSpotifyIds(RawAlbumOf(raw), rev), linked |-> FALSE],
     tracks |-> <<>>]

(***************************************************************************)
(* Notes: file handles, frontmatter documents, FrontmatterReader and       *)
(* FrontmatterWriter.                                                      *)
(***************************************************************************)
\* a note's path: its folder (tier), its base name (the parts joined by " - ")
\* and the numeric suffix " (n)", n = 0 for none
NoFile == [tier |-> "", name |-> <<>>, n |-> 0]

UndefLink == [kind |-> "undefined", file |-> NoFile, text |-> ""]
NullLink == [kind |-> "null", file |-> NoFile, text |-> ""]

\* frontmatter.tracks: absent, or the list of titles
NoTracks == [present |-> FALSE, titles |-> <<>>]

\* the note created by vault.create(path, '---\n---\n\n'): no frontmatter yet
EmptyFm ==
    [has |-> FALSE, title |-> "", created |-> 0, modified |-> 0, cover |-> "",
     music_ids |-> NoIds, spotify |-> "", in_library |-> "absent",
     artists |-> <<>>, album |-> UndefLink, aliases |-> "", tracks |-> NoTracks,
     custom |-> ""]

\* FrontmatterReader.extractFrontmatter throws when the cache holds no frontmatter
extractFrontmatterThrows(vlt, f) == ~vlt[f].has

\* resolveMarkdownLink: the linked file, if the text is a link that resolves
resolveMarkdownLink(vlt, link) ==
    IF link.kind = "link" /\ link.file \in DOMAIN vlt THEN link.file ELSE NoFile

parseArtistFileThrows(vlt, f) == extractFrontmatterThrows(vlt, f)

parseArtistLinksThrows(vlt, links) ==
    \E i \in 1..Len(links) :
        /\ resolveMarkdownLink(vlt, links[i]) # NoFile
        /\ parseArtistFileThrows(vlt, resolveMarkdownLink(vlt, links[i]))

parseAlbumFileThrows(vlt, f) ==
    extractFrontmatterThrows(vlt, f) \/ parseArtistLinksThrows(vlt, vlt[f].artists)

parseTrackFileThrows(vlt, f) ==
    \/ extractFrontmatterThrows(vlt, f)
    \/ parseArtistLinksThrows(vlt, vlt[f].artists)
    \/ /\ resolveMarkdownLink(vlt, vlt[f].album) # NoFile
       /\ parseAlbumFileThrows(vlt, resolveMarkdownLink(vlt, vlt[f].album))

parseFileThrows(vlt, f) ==
    CASE f.tier = "artist" -> parseArtistFileThrows(vlt, f)
      [] f.tier = "album"  -> parseAlbumFileThrows(vlt, f)
      [] f.tier = "track"  -> parseTrackFileThrows(vlt, f)

\* parseArtistLinks: a resolved link yields the linked note's object, else {title, ids: {}}
parseArtistLinks(vlt, links) ==
    [i \in 1..Len(links) |->
        LET lf == resolveMarkdownLink(vlt, links[i])
        IN IF lf # NoFile
           THEN [title |-> vlt[lf].title, ids |-> vlt[lf].music_ids, linked |-> TRUE]
           ELSE [title |-> links[i].text, ids |-> NoIds, linked |-> FALSE]]

\* parseAlbumLink, behind "frontmatter.album ? ... : undefined"
parseAlbumLink(vlt, link) ==
    IF link.kind \in {"undefined", "null"} THEN NoAlbum
    ELSE LET lf == resolveMarkdownLink(vlt, link)
         IN IF lf # NoFile
            THEN [kind |-> "album", title |-> vlt[lf].title, ids |-> vlt[lf].music_ids,
                  linked |-> TRUE]
            ELSE [kind |-> "album", title |-> link.text, ids |-> NoIds, linked |-> FALSE]

\* parseArtistFile / parseAlbumFile / parseTrackFile: the entity read back from a note
\* (no image, no addedAt; sources and ids as stored)
parseFile(vlt, f) ==
    [title |-> vlt[f].title, image |-> "", ids |-> vlt[f].music_ids, addedAt |-> 0,
     spotify |-> vlt[f].spotify, in_library |-> vlt[f].in_library,
     artists |-> IF f.tier = "artist" THEN <<>> ELSE parseArtistLinks(vlt, vlt[f].artists),
     album |-> IF f.tier = "track" THEN parseAlbumLink(vlt, vlt[f].album) ELSE NoAlbum,
     tracks |-> IF f.tier = "album" THEN vlt[f].tracks.titles ELSE <<>>]

\* updateCommonFrontmatter without the spread of entity.sources
updateCommonFrontmatterNoSources(fm, entity) ==
    [fm EXCEPT
        !.title = IF fm.title # "" THEN fm.title ELSE entity.title,
        !.cover = IF fm.cover # "" THEN fm.cover ELSE entity.image,
        !.aliases = IF fm.aliases # "" THEN fm.aliases ELSE entity.title,
        !.music_ids = [k \in KindSet |->
                         IF entity.ids[k] # "" THEN entity.ids[k] ELSE fm.music_ids[k]]]

\* FrontmatterWriter.updateCommonFrontmatter: title and cover keep a stored value;
\* the entity's identifiers and sources are spread over the stored ones
updateCommonFrontmatter(fm, entity) ==
    [fm EXCEPT
        !.title = IF fm.title # "" THEN fm.title ELSE entity.title,
        !.cover = IF fm.cover # "" THEN fm.cover ELSE entity.image,
        !.aliases = IF fm.aliases # "" THEN fm.aliases ELSE entity.title,
        !.music_ids = [k \in KindSet |->
                         IF entity.ids[k] # "" THEN entity.ids[k] ELSE fm.music_ids[k]],
        !.spotify = IF entity.spotify # "" THEN entity.spotify ELSE fm.spotify,
        !.in_library = IF entity.in_library # "absent" THEN entity.in_library
                       ELSE fm.in_library]

\* hasFrontmatterChanges: JSON.stringify(fm) !== JSON.stringify(fmOriginal), created and
\* modified included
hasFrontmatterChanges(fm, fmOriginal) ==
    [fm EXCEPT !.has = TRUE] # [fmOriginal EXCEPT !.has = TRUE]

\* parseDefaultFrontmatter of an empty setting: {} (DEFAULT_SETTINGS leaves the three
\* default_..._frontmatter settings empty)
NoDefaults == [custom |-> "", title |-> ""]

\* Object.assign(fm, defaultFrontmatter): every key of the defaults overrides fm's
assignDefaults(fm, defaultFrontmatter) ==
    [fm EXCEPT
        !.custom = IF defaultFrontmatter.custom # "" THEN defaultFrontmatter.custom ELSE @,
        !.title = IF defaultFrontmatter.title # "" THEN defaultFrontmatter.title ELSE @]

\* a finalize step that sets created from every update
finalizeFrontmatterRestamp(fmOriginal, fm, addedAt, defaultFrontmatter, day) ==
    LET newCreatedDate == IF addedAt # 0 THEN addedAt ELSE day
        fm1 == [fm EXCEPT !.created = newCreatedDate]
        fm2 == IF hasFrontmatterChanges(fm1, fmOriginal)
               THEN [fm1 EXCEPT !.modified = day] ELSE fm1
        isNew == fmOriginal.created = 0
        fm3 == IF isNew THEN assignDefaults(fm2, defaultFrontmatter) ELSE fm2
    IN [fm3 EXCEPT !.has = TRUE]

\* a finalize step that assigns the defaults on every update
finalizeFrontmatterAlwaysDefaults(fmOriginal, fm, addedAt, defaultFrontmatter, day) ==
    LET newCreatedDate == IF addedAt # 0 THEN addedAt ELSE day
        fm1 == IF fm.created = 0 \/ newCreatedDate < fm.created
               THEN [fm EXCEPT !.created = newCreatedDate] ELSE fm
        fm2 == IF hasFrontmatterChanges(fm1, fmOriginal)
               THEN [fm1 EXCEPT !.modified = day] ELSE fm1
        fm3 == assignDefaults(fm2, defaultFrontmatter)
    IN [fm3 EXCEPT !.has = TRUE]

\* finalizeFrontmatter: created moves to an earlier date only; modified is stamped when
\* the document changed; a document without created takes the default frontmatter; the
\* result is assigned onto the note
finalizeFrontmatter(fmOriginal, fm, addedAt, defaultFrontmatter, day) ==
    LET newCreatedDate == IF addedAt # 0 THEN addedAt ELSE day
        fm1 == IF fm.created = 0 \/ newCreatedDate < fm.created
               THEN [fm EXCEPT !.created = newCreatedDate] ELSE fm
        fm2 == IF hasFrontmatterChanges(fm1, fmOriginal)
               THEN [fm1 EXCEPT !.modified = day] ELSE fm1
        isNew == fmOriginal.created = 0
        fm3 == IF isNew THEN assignDefaults(fm2, defaultFrontmatter) ELSE fm2
    IN [fm3 EXCEPT !.has = TRUE]

\* updateArtistFrontmatter / updateAlbumFrontmatter / updateTrackFrontmatter, as the
\* callback of processFrontMatter; the links were generated before the callback runs
updateFrontmatter(tier, fmOriginal, entity, artistLinks, albumLink, defaultFrontmatter, day) ==
    LET fm0 == updateCommonFrontmatter(fmOriginal, entity)
        fm1 == CASE tier = "artist" -> fm0
                 [] tier = "album"  ->
                        [fm0 EXCEPT !.artists = artistLinks,
                                    !.tracks = IF fm0.tracks.present THEN fm0.tracks
                                               ELSE [present |-> TRUE,
                                                     titles |-> entity.tracks]]
                 [] tier = "track"  -> [fm0 EXCEPT !.album = albumLink,
                                                   !.artists = artistLinks]
    IN finalizeFrontmatter(fmOriginal, fm1, entity.addedAt, defaultFrontmatter, day)

(***************************************************************************)
(* MusicMetadataEnricher and the by-identifier calls of the Library Source. *)
(***************************************************************************)
NoEntity ==
    [title |-> "", image |-> "", ids |-> NoIds, addedAt |-> 0, spotify |-> "",
     in_library |-> "none", artists |-> <<>>, album |-> NoAlbum, tracks |-> <<>>]

\* MusicLibrarySource.getPrimaryId: the primary service's identifier
getPrimaryId(ids) == ids["spotify_id"]

\* getArtistsById / getAlbumsById / getTracksById: the catalog objects with the requested
\* ids, normalised with addedAt undefined
fetchById(tier, requested, rev) ==
    CASE tier = "artist" -> {toArtist(r, rev) : r \in {x \in RawArtists : SpotifyId(x) \in requested}}
      [] tier = "album"  -> {toAlbum(r, rev, 0) : r \in {x \in RawAlbums : SpotifyId(x) \in requested}}
      [] tier = "track"  -> {toTrack(r, rev, 0) : r \in {x \in RawTracks : SpotifyId(x) \in requested}}

\* { ...item, ...enriched }: every key of the fetched entity overrides the input's,
\* its sources object and its undefined addedAt included
mergeEnriched(item, enriched) ==
    [item EXCEPT !.title = enriched.title, !.image = enriched.image, !.ids = enriched.ids,
                 !.addedAt = enriched.addedAt, !.spotify = enriched.spotify,
                 !.in_library = enriched.in_library, !.artists = enriched.artists,
                 !.album = enriched.album, !.tracks = enriched.tracks]

\* enrichEntitiesWithMusicLibrarySource, for one entity of the batch `entities`
enrichEntity(tier, item, entities, rev) ==
    LET ids == {getPrimaryId(e.ids) : e \in entities} \ {""}
        enrichedDataIndex == IdxFromSet(fetchById(tier, ids, rev))
        enriched == IdxGet(enrichedDataIndex, item.ids, NoEntity)
    IN IF ids = {} \/ enriched = NoEntity THEN item ELSE mergeEnriched(item, enriched)

RECURSIVE fromItems(_)
\* MusicIdIndex.fromItems on a list: set(item.ids, item) for each item, first to last
fromItems(items) ==
    IF items = <<>> THEN EmptyIndex
    ELSE LET n == Len(items)
         IN IdxSet(fromItems(SubSeq(items, 1, n - 1)), items[n].ids, items[n])

\* a correlation of the fetched entities with the input by array position
enrichedByPosition(enrichedData, item, i) ==
    IF i <= Len(enrichedData) THEN enrichedData[i] ELSE NoEntity

\* enrichedDataIndex.get(item.ids), for the item at position i of the input
enrichedFor(enrichedData, item, i) == IdxGet(fromItems(enrichedData), item.ids, NoEntity)

\* enrichEntitiesWithMusicLibrarySource on the list entities, the Library Source
\* answering the re-fetch with the list enrichedData
enrichEntitiesWithMusicLibrarySource(entities, enrichedData) ==
    LET ids == SelectSeq([i \in 1..Len(entities) |-> getPrimaryId(entities[i].ids)],
                         LAMBDA id : id # "")
    IN IF Len(ids) = 0 THEN entities
       ELSE [i \in 1..Len(entities) |->
               LET enriched == enrichedFor(enrichedData, entities[i], i)
               IN IF enriched # NoEntity THEN mergeEnriched(entities[i], enriched)
                  ELSE entities[i]]

\* SyncEngine.entitiesAreEqual: JSON equality of the two objects without their file
entitiesAreEqual(entity1, entity2) == entity1 = entity2

(***************************************************************************)
(* FileManager.                                                            *)
(***************************************************************************)
NoItem == [file |-> NoFile, ids |-> NoIds]

\* buildSafeFileName: the non-empty parts
buildSafeFileName(parts) == SelectSeq(parts, LAMBDA part : part # "")

primaryArtistOf(entity) ==
    IF Len(entity.artists) > 0 /\ entity.artists[1].title # ""
    THEN entity.artists[1].title ELSE "Unknown Artist"

\* the name computed by createArtistFile / createAlbumFile / createTrackFile
fileNameOf(tier, entity) ==
    CASE tier = "artist" -> buildSafeFileName(<<entity.title>>)
      [] tier = "album"  -> buildSafeFileName(<<entity.title, primaryArtistOf(entity)>>)
      [] tier = "track"  -> buildSafeFileName(<<entity.title, entity.album.title,
                                                primaryArtistOf(entity)>>)

\* FileManager.createFile, up to its vault.create: the base name, else the first
\* "name (counter)" that getAbstractFileByPath does not find
createFilePath(vlt, tier, fileName) ==
    LET taken == {f.n : f \in {g \in DOMAIN vlt : g.tier = tier /\ g.name = fileName}}
    IN [tier |-> tier, name |-> fileName,
        n |-> Min({n \in 0..Cardinality(taken) : n \notin taken})]

\* FileManager.buildIndex: one item per markdown file of the folder
buildIndexThrows(vlt, tier) ==
    \E f \in DOMAIN vlt : f.tier = tier /\ parseFileThrows(vlt, f)

buildIndex(vlt, tier) ==
    IdxFromSet({[file |-> f, ids |-> vlt[f].music_ids] : f \in {g \in DOMAIN vlt : g.tier = tier}})

\* generateEntityLink: the title when no note is indexed, else a link to the note
generateEntityLink(musicFile, displayTitle) ==
    IF musicFile = NoItem THEN [kind |-> "plain", file |-> NoFile, text |-> displayTitle]
    ELSE [kind |-> "link", file |-> musicFile.file, text |-> displayTitle]

\* generateArtistLink for each artist of the entity, against the artist index
generateArtistLinks(artistIdx, artists) ==
    [i \in 1..Len(artists) |->
        generateEntityLink(IdxGet(artistIdx, artists[i].ids, NoItem), artists[i].title)]

\* "track.album && await generateAlbumLink(track.album)"
generateAlbumLink(albumIdx, album) ==
    CASE album.kind = "undefined" -> UndefLink
      [] album.kind = "null" -> NullLink
      [] OTHER -> generateEntityLink(IdxGet(albumIdx, album.ids, NoItem), album.title)

(***************************************************************************)
(* State.                                                                  *)
(***************************************************************************)
VARIABLES
    vault,          \* the notes: file handle -> frontmatter document
    index,          \* FileManager's cached artistIndex / albumIndex / trackIndex
    phase,          \* where the running pass stands ("idle": none is running)
    tierNo,         \* the tier the phase is at, a position of TierOrder
    passKind,       \* "full" or "incremental": the last pass started
    saved,          \* savedArtists / savedAlbums / savedTracks of the pass
    fetched,        \* the tiers whose getSaved... call returned in the pass
    freshened,      \* artistFiles / albumFiles / trackFiles, the results of freshen
    tasks,          \* promises in flight: vault.create and processFrontMatter calls
    result,         \* the Notice that ended the last pass: "none", "ok", "failed"
    failedFetch,    \* the tier whose getSaved... call threw in the pass, or "none"
    remoteSaved,    \* the user's saved collection at the service
    remoteRev,      \* the revision of the catalog the service answers with
    remoteChanges,  \* the number of changes made at the service
    changedSince,   \* whether the service changed since the last pass started
    today,          \* moment(), as a day number
    passes,         \* the number of passes started
    prevOk,         \* whether the pass before the last was a full sync that succeeded
    vault0,         \* the notes as they were when the last pass started
    issued,         \* the processFrontMatter calls issued by the last pass
    lost,           \* the entities whose vault.create was rejected
    shared,         \* the files that two creations of a batch both obtained
    failedWrites,   \* the processFrontMatter calls of the last pass the storage rejected
    silent,         \* the silent argument of the last pass
    failureNotices, \* the failure Notices the last pass has shown
    enrichCalls,    \* the calls of enrichArtists / enrichAlbums / enrichTracks of the last pass
    testIdx,        \* a MusicIdIndex exercised on its own
    calls,          \* the set(ids, item) calls made on it, in order
    clock,          \* Date.now() in ms
    lastSyncTime,   \* ObsidianSpotify.lastSyncTime
    layoutReady,    \* whether the workspace layout is ready
    layoutQueue,    \* the callbacks onLayoutReady holds back
    running,        \* the sync passes in progress, counted by kind
    autoStarts,     \* the times at which automatically triggered passes started
    loadTimer,      \* whether the timer set by onload is still to fire
    note,           \* the frontmatter document of a note updated on its own
    noteDay,        \* moment() at the last update of that note, as a day number
    updates,        \* the updates applied to that note, in order
    call,           \* a call of the Library Source followed on its own
    remoteSize,     \* the size of the collection (or identifier list) the call works on
    cursor,         \* offset / after / i of the call's loop
    requests,       \* the requests the call has sent to the Web API, in order
    allItems,       \* allItems / spotifyArtists / allResults: what the call has gathered
    returned,       \* the call's return value
    trackCache,     \* LocalTrackManager.trackCache: undefined, or the keys cached so far
    scanInProgress, \* whether LocalTrackManager.scanInProgress holds a promise
    toScan,         \* the audio files the running scan has still to cache
    scans,          \* the number of library scans started
    finds,          \* the findTrackFile calls: where each stands and what it returned
    refreshInterval, \* whether TokenManager.refreshInterval holds a timer
    liveIntervals,  \* the number of setInterval timers started and not cleared
    listeners,      \* the online handlers registered on window
    onlineHandler,  \* TokenManager.onlineHandler: 0 for null, else the handler's number
    handlersAwaiting, \* the online handlers that are awaiting refreshToken / updateUsername
    timeouts,       \* the setTimeout callbacks of online handlers still to fire
    cleaned,        \* whether cleanup() has run
    onlineEvents,   \* the number of online / online-custom events dispatched
    enrichedTracks, \* the Map of getSavedTracks: uri -> merged entry
    observations    \* the (saved track, source name) pairs merged so far, in order

syncVars == <<vault, index, phase, tierNo, passKind, saved, fetched, freshened, tasks,
              result, failedFetch, remoteSaved, remoteRev, remoteChanges, changedSince,
              today, passes, prevOk, vault0, issued, lost, shared, failedWrites,
              silent, failureNotices, enrichCalls>>

triggerVars == <<clock, lastSyncTime, layoutReady, layoutQueue, running, autoStarts,
                 loadTimer>>

libVars == <<testIdx, calls>>

catalogVars == <<total_tracks, trackItems>>

writerVars == <<note, noteDay, updates>>

sourceVars == <<call, remoteSize, cursor, requests, allItems, returned>>

localVars == <<trackCache, scanInProgress, toScan, scans, finds>>

tokenVars == <<refreshInterval, liveIntervals, listeners, onlineHandler, handlersAwaiting,
               timeouts, cleaned, onlineEvents>>

mergeVars == <<enrichedTracks, observations>>

auxVars == <<localVars, tokenVars, mergeVars>>

\* everything but the three tuples above
mainVars == <<syncVars, triggerVars, libVars, catalogVars, writerVars, sourceVars>>

vars == <<syncVars, triggerVars, libVars, catalogVars, writerVars, sourceVars, auxVars>>

\* the tiers taken tracks first
TierOrderReversed == <<"track", "album", "artist">>

\* the order in which every step of a pass takes the tiers
TierOrder == <<"artist", "album", "track">>

Tier == TierOrder[tierNo]

RECENT_SYNC_LIMIT == 20

SYNC_DEBOUNCE_MS == 10000

\* the delay of the timer onload sets, also the step by which the model's clock advances
AUTO_SYNC_DELAY_MS == 5000

API_PAGE_SIZE == 50

ARTISTS_BATCH_SIZE == 50

ALBUMS_BATCH_SIZE == 20

TRACKS_BATCH_SIZE == 50

\* the first RECENT_SYNC_LIMIT items of the collection
recentWindow(S) ==
    IF Cardinality(S) <= RECENT_SYNC_LIMIT THEN S
    ELSE CHOOSE T \in SUBSET S : Cardinality(T) = RECENT_SYNC_LIMIT

\* getSavedArtists / getSavedAlbums / getSavedTracks, normalised to the Entity Model
getSaved(tier, recentOnly) ==
    CASE tier = "artist" -> {toArtist(r, remoteRev) : r \in remoteSaved["artist"]}
      [] tier = "album"  ->
            {toAlbum(r, remoteRev, RawAddedAt(r)) :
                r \in {x \in (IF recentOnly THEN recentWindow(remoteSaved["album"])
                              ELSE remoteSaved["album"]) : RawTotalTracks(x) # 1}}
      [] tier = "track"  ->
            {toTrack(r, remoteRev, RawAddedAt(r)) :
                r \in (IF recentOnly THEN recentWindow(remoteSaved["track"])
                       ELSE remoteSaved["track"])}

Unbuilt == [built |-> FALSE, idx |-> EmptyIndex]

EmptyVault == [f \in {} |-> EmptyFm]

SyncInit ==
    /\ vault = EmptyVault
    /\ index = [t \in Tiers |-> Unbuilt]
    /\ phase = "idle"
    /\ tierNo = 1
    /\ passKind = "none"
    /\ saved = [t \in Tiers |-> {}]
    /\ fetched = {}
    /\ freshened = [t \in Tiers |-> {}]
    /\ enrichCalls = [t \in Tiers |-> 0]
    /\ tasks = {}
    /\ result = "none"
    /\ failedFetch = "none"
    /\ remoteRev = 0
    /\ remoteChanges = 0
    /\ changedSince = FALSE
    /\ today = 1
    /\ passes = 0
    /\ prevOk = FALSE
    /\ vault0 = EmptyVault
    /\ issued = {}
    /\ lost = {}
    /\ shared = {}
    /\ failedWrites = {}
    /\ silent = FALSE
    /\ failureNotices = 0

\* onload has run: Date.now() is far past SYNC_DEBOUNCE_MS, the plugin is logged in,
\* auto_sync_on_load and sync_on_app_foreground are enabled, the layout is not ready yet
TriggerInit ==
    /\ clock = 2 * SYNC_DEBOUNCE_MS
    /\ lastSyncTime = 0
    /\ layoutReady = FALSE
    /\ layoutQueue = 0
    /\ running = [full |-> 0, recent |-> 0]
    /\ autoStarts = <<>>
    /\ loadTimer = TRUE

\* new MusicIdIndex([], item => item.ids)
LibInit ==
    /\ testIdx = EmptyIndex
    /\ calls = <<>>

\* the release b1 holds two tracks
CatalogInit == total_tracks = 2 /\ trackItems = {"t1"}

\* the user has saved everything the catalog holds
RemoteInit == remoteSaved = [t \in Tiers |-> RawOf(t)]

WriterInit ==
    /\ note = EmptyFm
    /\ noteDay = 1
    /\ updates = <<>>

NoCall == [op |-> "none", tier |-> "", recentOnly |-> FALSE, state |-> "idle"]

SourceInit ==
    /\ call = NoCall
    /\ remoteSize = 0
    /\ cursor = 0
    /\ requests = <<>>
    /\ allItems = <<>>
    /\ returned = <<>>

\* the audio files of the local music folder, by lookup key
LocalFiles == {"k1", "k2", "k3"}

NoFind == [state |-> "idle", key |-> "", result |-> "none"]

\* new LocalTrackManager(app, settings): no cache, no scan
LocalInit ==
    /\ trackCache = [defined |-> FALSE, keys |-> {}]
    /\ scanInProgress = FALSE
    /\ toScan = {}
    /\ scans = 0
    /\ finds = [c \in 1..MaxFinds |-> NoFind]

\* new TokenManager(plugin): no timer, no handlers
TokenInit ==
    /\ refreshInterval = FALSE
    /\ liveIntervals = 0
    /\ listeners = {}
    /\ onlineHandler = 0
    /\ handlersAwaiting = 0
    /\ timeouts = 0
    /\ cleaned = FALSE
    /\ onlineEvents = 0

\* getSavedTracks: new Map<string, EnrichedTrack>()
MergeInit ==
    /\ enrichedTracks = <<>>
    /\ observations = <<>>

AuxInit == LocalInit /\ TokenInit /\ MergeInit

Init ==
    /\ CatalogInit /\ RemoteInit /\ SyncInit /\ TriggerInit /\ LibInit /\ WriterInit
    /\ SourceInit /\ AuxInit

(***************************************************************************)
(* The sync pass (SyncEngine.fullSync / incrementalSync) and its promises.  *)
(***************************************************************************)
\* a vault.create in flight (createFile awaits it)
CreateTask(tier, file, entity) ==
    [kind |-> "create", origin |-> "ingest", tier |-> tier, file |-> file, entity |-> entity,
     artistLinks |-> <<>>, albumLink |-> UndefLink, value |-> "absent"]

\* a processFrontMatter of updateArtist/Album/TrackFrontmatter in flight
WriteTask(origin, tier, file, entity, artistLinks, albumLink) ==
    [kind |-> "write", origin |-> origin, tier |-> tier, file |-> file, entity |-> entity,
     artistLinks |-> artistLinks, albumLink |-> albumLink, value |-> "absent"]

\* a processFrontMatter of updateLibraryStatus in flight
StatusTask(tier, file, value) ==
    [kind |-> "status", origin |-> "status", tier |-> tier, file |-> file,
     entity |-> NoEntity, artistLinks |-> <<>>, albumLink |-> UndefLink, value |-> value]

RECURSIVE IdxSetAll(_, _)
\* index.set(item.ids, item) for each item
IdxSetAll(idx, items) ==
    IF items = {} THEN idx
    ELSE LET it == CHOOSE x \in items : TRUE
         IN IdxSetAll(IdxSet(idx, it.ids, it), items \ {it})

\* getArtistIndex / getAlbumIndex / getTrackIndex: the cached index, built on first use
getIndex(tier) == IF index[tier].built THEN index[tier].idx ELSE buildIndex(vault, tier)

getIndexThrows(tier) == ~index[tier].built /\ buildIndexThrows(vault, tier)

\* a catch block that shows its Notice whatever the pass
failureNoticeAlways(kind, quiet) == 1

\* the Notices of the catch block: one, none for incrementalSync with silent set
failureNotice(kind, quiet) == IF kind = "incremental" /\ quiet THEN 0 ELSE 1

\* the catch block of fullSync / incrementalSync: the pass ends, nothing is rethrown
Abort ==
    /\ phase' = "idle"
    /\ result' = "failed"
    /\ tierNo' = 1
    /\ failureNotices' = failureNotices + failureNotice(passKind, silent)

\* the next tier of the phase, or the phase that follows
Advance(next) ==
    IF tierNo < Len(TierOrder)
    THEN phase' = phase /\ tierNo' = tierNo + 1
    ELSE phase' = next /\ tierNo' = 1

\* fullSync() / incrementalSync() is called on a new SyncEngine, on the day of the last
\* pass or on the next: ensureDirectoryExists for the three folders, then the first step
StartPass(kind, quiet) ==
    /\ phase = "idle"
    /\ tasks = {}
    /\ passes < MaxPasses
    /\ \E d \in {today, today + 1} : d <= MaxDay /\ today' = d
    /\ passes' = passes + 1
    /\ passKind' = kind
    /\ silent' = quiet
    /\ failureNotices' = 0
    /\ prevOk' = (passKind = "full" /\ result = "ok" /\ ~changedSince)
    /\ changedSince' = FALSE
    /\ index' = [t \in Tiers |-> Unbuilt]
    /\ saved' = [t \in Tiers |-> {}]
    /\ freshened' = [t \in Tiers |-> {}]
    /\ fetched' = {}
    /\ failedFetch' = "none"
    /\ result' = "running"
    /\ vault0' = vault
    /\ issued' = {}
    /\ lost' = {}
    /\ shared' = {}
    /\ phase' = IF kind = "full" THEN "freshen" ELSE "fetch"
    /\ tierNo' = 1
    /\ failedWrites' = {}
    /\ enrichCalls' = [t \in Tiers |-> 0]
    /\ UNCHANGED <<vault, tasks, remoteSaved, remoteRev, remoteChanges, triggerVars, libVars, catalogVars, writerVars, sourceVars, auxVars>>

StartFull == StartPass("full", FALSE)

\* incrementalSync(silent): silent is set by the foreground events only
StartIncremental == \E quiet \in BOOLEAN : StartPass("incremental", quiet)

\* a step that enriches without the call being counted
enrichNotCounted(tier) == enrichCalls

\* enrichEntities(...) is called: metadataEnricher.enrichArtists / enrichAlbums /
\* enrichTracks for the tier
enrichCalled(tier) == [enrichCalls EXCEPT ![tier] = @ + 1]

\* freshenArtists / freshenAlbums / freshenTracks up to the Promise.all of freshenFiles:
\* the index is read, the notes are enriched, and updateFile is called for every note
\* whose enriched entity differs (index.set, the links, then processFrontMatter)
FreshenStart ==
    /\ phase = "freshen"
    /\ IF getIndexThrows(Tier)
       THEN /\ Abort
            /\ UNCHANGED <<index, tasks, freshened, issued, enrichCalls>>
       ELSE LET files == {f \in DOMAIN vault : f.tier = Tier}
                batch == {parseFile(vault, f) : f \in files}
                enr(f) == enrichEntity(Tier, parseFile(vault, f), batch, remoteRev)
                changed == {f \in files : ~entitiesAreEqual(parseFile(vault, f), enr(f))}
                idx1 == IdxSetAll(getIndex(Tier),
                                  {[file |-> f, ids |-> enr(f).ids] : f \in changed})
                index1 == [index EXCEPT ![Tier] = [built |-> TRUE, idx |-> idx1]]
            IN /\ index' = index1
               /\ tasks' = tasks \cup
                    {WriteTask("freshen", Tier, f, enr(f),
                               generateArtistLinks(index1["artist"].idx, enr(f).artists),
                               generateAlbumLink(index1["album"].idx, enr(f).album))
                        : f \in changed}
               /\ issued' = issued \cup {[file |-> f, origin |-> "freshen"] : f \in changed}
               /\ freshened' = [freshened EXCEPT
                                  ![Tier] = {[file |-> f, ids |-> enr(f).ids] : f \in files}]
               /\ enrichCalls' = enrichCalled(Tier)
               /\ phase' = "freshenWait"
               /\ UNCHANGED <<tierNo, result, failureNotices>>
    /\ UNCHANGED <<vault, passKind, saved, fetched, failedFetch, remoteSaved, remoteRev,
                   remoteChanges, changedSince, today, passes, prevOk, vault0, lost, shared,
                   failedWrites, silent, triggerVars, libVars, catalogVars, writerVars, sourceVars, auxVars>>

\* the Promise.all of freshenFiles resolves: every update of the tier has been written
FreshenDone ==
    /\ phase = "freshenWait"
    /\ ~\E t \in tasks : t.origin = "freshen"
    /\ IF tierNo < Len(TierOrder)
       THEN phase' = "freshen" /\ tierNo' = tierNo + 1
       ELSE phase' = "fetch" /\ tierNo' = 1
    /\ UNCHANGED <<vault, index, passKind, saved, fetched, freshened, tasks, result,
                   failedFetch, remoteSaved, remoteRev, remoteChanges, changedSince, today,
                   passes, prevOk, vault0, issued, lost, shared,
                   failedWrites, silent, failureNotices, enrichCalls,
                   triggerVars, libVars, catalogVars, writerVars, sourceVars, auxVars>>

\* await musicLibrarySource.getSaved...(options) returns
FetchOk ==
    /\ phase = "fetch"
    /\ saved' = [saved EXCEPT ![Tier] = getSaved(Tier, passKind = "incremental")]
    /\ fetched' = fetched \cup {Tier}
    /\ Advance("ingest")
    /\ UNCHANGED <<vault, index, passKind, freshened, tasks, result, failedFetch,
                   remoteSaved, remoteRev, remoteChanges, changedSince, today, passes,
                   prevOk, vault0, issued, lost, shared,
                   failedWrites, silent, failureNotices, enrichCalls,
                   triggerVars, libVars, catalogVars, writerVars, sourceVars, auxVars>>

\* await musicLibrarySource.getSaved...(options) throws (network, auth)
FetchFail ==
    /\ phase = "fetch"
    /\ failedFetch' = Tier
    /\ Abort
    /\ UNCHANGED <<vault, index, passKind, saved, fetched, freshened, tasks, remoteSaved,
                   remoteRev, remoteChanges, changedSince, today, passes, prevOk, vault0,
                   issued, lost, shared,
                   failedWrites, silent, enrichCalls,
                   triggerVars, libVars, catalogVars, writerVars, sourceVars, auxVars>>

\* the filter of ingestNewEntities without its test: every fetched entity counts as new
newEntitiesUnfiltered(savedEntities, existingFileIndex) == savedEntities

\* savedEntities.filter(entity => !existingFileIndex.has(entity.ids))
newEntitiesOf(savedEntities, existingFileIndex) ==
    {e \in savedEntities : ~IdxHas(existingFileIndex, e.ids)}

\* ingestNewEntities: the entities the index does not hold are enriched, marked
\* in_library and handed to createFile, whose promise is dropped
Ingest ==
    /\ phase = "ingest"
    /\ IF getIndexThrows(Tier)
       THEN /\ Abort
            /\ UNCHANGED <<index, tasks, enrichCalls>>
       ELSE LET existingFileIndex == getIndex(Tier)
                newEntities == newEntitiesOf(saved[Tier], existingFileIndex)
                enrichedEntities ==
                    {[enrichEntity(Tier, e, newEntities, remoteRev)
                        EXCEPT !.in_library = "true"] : e \in newEntities}
            IN /\ index' = [index EXCEPT ![Tier] = [built |-> TRUE, idx |-> existingFileIndex]]
               /\ tasks' = tasks \cup
                    {CreateTask(Tier, createFilePath(vault, Tier, fileNameOf(Tier, e)), e)
                        : e \in enrichedEntities}
               /\ enrichCalls' = enrichCalled(Tier)
               /\ Advance(IF passKind = "full" THEN "status" ELSE "finish")
               /\ UNCHANGED <<result, failureNotices>>
    /\ UNCHANGED <<vault, passKind, saved, fetched, freshened, failedFetch, remoteSaved,
                   remoteRev, remoteChanges, changedSince, today, passes, prevOk, vault0,
                   issued, lost, shared,
                   failedWrites, silent, triggerVars, libVars, catalogVars, writerVars, sourceVars, auxVars>>

\* from the last ingest to the closing Notice the pass awaits no I/O (updateLibraryStatus
\* awaits nothing), so no promise of the vault settles in between
Settling == phase \notin {"status", "finish"}

\* createFile's vault.create resolves; create...File goes on into update...File:
\* index.set, the links, then processFrontMatter is called
EnterUpdate(t) ==
    LET item == [file |-> t.file, ids |-> t.entity.ids]
        index1 == [index EXCEPT ![t.tier].idx = IdxSet(index[t.tier].idx, item.ids, item)]
    IN /\ index' = index1
       /\ tasks' = (tasks \ {t}) \cup
            {WriteTask("ingest", t.tier, t.file, t.entity,
                       generateArtistLinks(index1["artist"].idx, t.entity.artists),
                       generateAlbumLink(index1["album"].idx, t.entity.album))}
       /\ issued' = issued \cup {[file |-> t.file, origin |-> "ingest"]}

CreateComplete ==
    /\ Settling
    /\ \E t \in tasks :
        /\ t.kind = "create"
        /\ t.file \notin DOMAIN vault
        /\ vault' = [f \in (DOMAIN vault) \cup {t.file} |->
                        IF f = t.file THEN EmptyFm ELSE vault[f]]
        /\ EnterUpdate(t)
        /\ UNCHANGED <<phase, tierNo, passKind, saved, fetched, freshened, result,
                       failedFetch, remoteSaved, remoteRev, remoteChanges, changedSince,
                       today, passes, prevOk, vault0, lost, shared,
                   failedWrites, silent, failureNotices, enrichCalls,
                   triggerVars, libVars, catalogVars, writerVars, sourceVars, auxVars>>

\* a second vault.create of the same path, issued before the first one registered the
\* file: it is rejected ("File already exists") ...
CreateRejected ==
    /\ Settling
    /\ \E t \in tasks :
        /\ t.kind = "create"
        /\ t.file \in DOMAIN vault
        /\ tasks' = tasks \ {t}
        /\ lost' = lost \cup {t.entity}
        /\ UNCHANGED <<vault, index, phase, tierNo, passKind, saved, fetched, freshened,
                       result, failedFetch, remoteSaved, remoteRev, remoteChanges,
                       changedSince, today, passes, prevOk, vault0, issued, shared,
                   failedWrites, silent, failureNotices, enrichCalls,
                   triggerVars, libVars, catalogVars, writerVars, sourceVars, auxVars>>

\* ... or it resolves to the file the first one created
CreateShared ==
    /\ Settling
    /\ \E t \in tasks :
        /\ t.kind = "create"
        /\ t.file \in DOMAIN vault
        /\ shared' = shared \cup {t.file}
        /\ EnterUpdate(t)
        /\ UNCHANGED <<vault, phase, tierNo, passKind, saved, fetched, freshened, result,
                       failedFetch, remoteSaved, remoteRev, remoteChanges, changedSince,
                       today, passes, prevOk, vault0, lost,
                   failedWrites, silent, failureNotices, enrichCalls,
                   triggerVars, libVars, catalogVars, writerVars, sourceVars, auxVars>>

\* processFrontMatter of an update runs its callback on the note and saves it
WriteComplete ==
    /\ Settling
    /\ \E t \in tasks :
        /\ t.kind = "write"
        /\ vault' = [vault EXCEPT ![t.file] =
                        updateFrontmatter(t.tier, vault[t.file], t.entity, t.artistLinks,
                                          t.albumLink, NoDefaults, today)]
        /\ tasks' = tasks \ {t}
        /\ UNCHANGED <<index, phase, tierNo, passKind, saved, fetched, freshened, result,
                       failedFetch, remoteSaved, remoteRev, remoteChanges, changedSince,
                       today, passes, prevOk, vault0, issued, lost, shared,
                   failedWrites, silent, failureNotices, enrichCalls,
                   triggerVars, libVars, catalogVars, writerVars, sourceVars, auxVars>>

\* a status step that marks every file as saved
libraryStatusAlwaysSaved(savedEntities, ids) == "true"

\* savedEntitiesIndex.has(file.ids), over new MusicIdIndex(savedEntities, e => e.ids)
libraryStatus(savedEntities, ids) ==
    IF IdxHas(IdxFromSet(savedEntities), ids) THEN "true" ELSE "false"

\* updateLibraryStatus: a processFrontMatter per file of the freshen result, none awaited
UpdateLibraryStatus ==
    /\ phase = "status"
    /\ tasks' = tasks \cup
            {StatusTask(Tier, it.file, libraryStatus(saved[Tier], it.ids))
                : it \in freshened[Tier]}
    /\ issued' = issued \cup {[file |-> it.file, origin |-> "status"] : it \in freshened[Tier]}
    /\ Advance("finish")
    /\ UNCHANGED <<vault, index, passKind, saved, fetched, freshened, result, failedFetch,
                   remoteSaved, remoteRev, remoteChanges, changedSince, today, passes,
                   prevOk, vault0, lost, shared,
                   failedWrites, silent, failureNotices, enrichCalls,
                   triggerVars, libVars, catalogVars, writerVars, sourceVars, auxVars>>

\* the callback of updateLibraryStatus: fm.music_sources.in_library = file.sources.in_library
applyLibraryStatus(fm, value) == [fm EXCEPT !.in_library = value]

\* processFrontMatter of updateLibraryStatus runs its callback on the note and saves it
StatusComplete ==
    /\ Settling
    /\ \E t \in tasks :
        /\ t.kind = "status"
        /\ vault' = [vault EXCEPT ![t.file] = applyLibraryStatus(vault[t.file], t.value)]
        /\ tasks' = tasks \ {t}
        /\ UNCHANGED <<index, phase, tierNo, passKind, saved, fetched, freshened, result,
                       failedFetch, remoteSaved, remoteRev, remoteChanges, changedSince,
                       today, passes, prevOk, vault0, issued, lost, shared,
                   failedWrites, silent, failureNotices, enrichCalls,
                   triggerVars, libVars, catalogVars, writerVars, sourceVars, auxVars>>

\* new Notice('... completed successfully!'): the pass resolves
Finish ==
    /\ phase = "finish"
    /\ phase' = "idle"
    /\ result' = "ok"
    /\ UNCHANGED <<vault, index, tierNo, passKind, saved, fetched, freshened, tasks,
                   failedFetch, remoteSaved, remoteRev, remoteChanges, changedSince, today,
                   passes, prevOk, vault0, issued, lost, shared,
                   failedWrites, silent, failureNotices, enrichCalls,
                   triggerVars, libVars, catalogVars, writerVars, sourceVars, auxVars>>

\* the user saves or removes an item at the service, or the service reports another
\* uri for an artist
RemoteChange ==
    /\ phase = "idle"
    /\ tasks = {}
    /\ remoteChanges < MaxRemoteChanges
    /\ remoteChanges' = remoteChanges + 1
    /\ changedSince' = TRUE
    /\ \/ /\ \E t \in Tiers : \E r \in RawOf(t) :
                remoteSaved' = [remoteSaved EXCEPT ![t] =
                                  IF r \in @ THEN @ \ {r} ELSE @ \cup {r}]
          /\ UNCHANGED remoteRev
       \/ /\ remoteRev' = 1 - remoteRev
          /\ UNCHANGED remoteSaved
    /\ UNCHANGED <<vault, index, phase, tierNo, passKind, saved, fetched, freshened, tasks,
                   result, failedFetch, today, passes, prevOk, vault0, issued, lost, shared,
                   failedWrites, silent, failureNotices, enrichCalls,
                   triggerVars, libVars, catalogVars, writerVars, sourceVars, auxVars>>

Next ==
    \/ StartFull
    \/ StartIncremental
    \/ FreshenStart
    \/ FreshenDone
    \/ FetchOk
    \/ FetchFail
    \/ Ingest
    \/ CreateComplete
    \/ CreateRejected
    \/ CreateShared
    \/ WriteComplete
    \/ UpdateLibraryStatus
    \/ StatusComplete
    \/ Finish
    \/ RemoteChange

Spec == Init /\ [][Next]_vars

\* the same program against a catalog whose release b1 is a single: it holds one track
InitSingle ==
    /\ total_tracks = 1 /\ trackItems = {"t1"}
    /\ RemoteInit /\ SyncInit /\ TriggerInit /\ LibInit /\ WriterInit /\ SourceInit
    /\ AuxInit

SpecSingle == InitSingle /\ [][Next]_vars

\* the same program against a catalog whose release b1 holds two tracks, t1 and t2;
\* the user has saved the artists and track t1, and perhaps track t2 as well
InitTwoTracks ==
    /\ total_tracks = 2 /\ trackItems = {"t1", "t2"}
    /\ \E saved2 \in {{"t1"}, {"t1", "t2"}} :
          remoteSaved = [artist |-> RawArtists, album |-> {}, track |-> saved2]
    /\ SyncInit /\ TriggerInit /\ LibInit /\ WriterInit /\ SourceInit /\ AuxInit

SpecTwoTracks == InitTwoTracks /\ [][Next]_vars

(***************************************************************************)
(* The sync pass over a storage layer that may reject a frontmatter write. *)
(***************************************************************************)
\* processFrontMatter of an update rejects and the note stays as it was.  A freshen
\* update is awaited inside the Promise.all of freshenFiles, which rejects with it: the
\* pass lands in its catch block while the sibling writes go on.  An ingest update
\* belongs to a promise nobody holds: the rejection goes unhandled
WriteFails ==
    /\ Settling
    /\ Cardinality(failedWrites) < MaxWriteFailures
    /\ \E t \in tasks :
        /\ t.kind = "write"
        /\ tasks' = tasks \ {t}
        /\ failedWrites' = failedWrites \cup
              {[file |-> t.file, origin |-> t.origin, ids |-> t.entity.ids,
                aborted |-> (t.origin = "freshen" /\ phase = "freshenWait")]}
        /\ IF t.origin = "freshen" /\ phase = "freshenWait"
           THEN Abort
           ELSE UNCHANGED <<phase, result, tierNo, failureNotices>>
    /\ UNCHANGED <<vault, index, passKind, saved, fetched, freshened, failedFetch,
                   remoteSaved, remoteRev, remoteChanges, changedSince, today, passes,
                   prevOk, vault0, issued, lost, shared, silent, enrichCalls,
                   triggerVars, libVars, catalogVars, writerVars, sourceVars, auxVars>>

FaultNext == Next \/ WriteFails

SpecFaults == Init /\ [][FaultNext]_vars

(***************************************************************************)
(* The triggers of a pass (main.ts): commands, settings buttons, the timer *)
(* of onload, the foreground events of the mobile app.  A pass is taken    *)
(* here as a span between its start and its end.                           *)
(***************************************************************************)
inProgress == running.full + running.recent

\* time passes
ClockAdvance ==
    /\ clock < 2 * SYNC_DEBOUNCE_MS + MaxClockSteps * AUTO_SYNC_DELAY_MS
    /\ clock' = clock + AUTO_SYNC_DELAY_MS
    /\ UNCHANGED <<lastSyncTime, layoutReady, layoutQueue, running, autoStarts, loadTimer,
                   syncVars, libVars, catalogVars, writerVars, sourceVars, auxVars>>

\* syncRecent(silent) as the callback handed to onLayoutReady: n of them start
startAutoPasses(n) ==
    /\ running' = [running EXCEPT !.recent = @ + n]
    /\ autoStarts' = autoStarts \o [i \in 1..n |-> clock]

\* debouncedSyncRecent: a trigger within SYNC_DEBOUNCE_MS of the last accepted one
\* returns; else lastSyncTime is set and onLayoutReady runs the callback at once when
\* the layout is ready, and holds it back when it is not
debouncedSyncRecent ==
    IF clock - lastSyncTime < SYNC_DEBOUNCE_MS
    THEN UNCHANGED <<lastSyncTime, layoutQueue, running, autoStarts>>
    ELSE /\ lastSyncTime' = clock
         /\ IF layoutReady
            THEN startAutoPasses(1) /\ UNCHANGED layoutQueue
            ELSE layoutQueue' = layoutQueue + 1 /\ UNCHANGED <<running, autoStarts>>

\* the timer of onload fires, AUTO_SYNC_DELAY_MS after the load or later
OnLoadTimer ==
    /\ loadTimer
    /\ clock >= 2 * SYNC_DEBOUNCE_MS + AUTO_SYNC_DELAY_MS
    /\ loadTimer' = FALSE
    /\ debouncedSyncRecent
    /\ UNCHANGED <<clock, layoutReady, syncVars, libVars, catalogVars, writerVars, sourceVars, auxVars>>

\* setupAppFocusDetection: visibilitychange (visible), resume or pageshow (persisted)
AppForeground ==
    /\ \E event \in {"visibilitychange", "resume", "pageshow"} : debouncedSyncRecent
    /\ UNCHANGED <<clock, layoutReady, loadTimer, syncVars, libVars, catalogVars, writerVars, sourceVars, auxVars>>

\* the workspace layout becomes ready: the callbacks onLayoutReady held back run
LayoutReady ==
    /\ ~layoutReady
    /\ layoutReady' = TRUE
    /\ startAutoPasses(layoutQueue)
    /\ layoutQueue' = 0
    /\ UNCHANGED <<clock, lastSyncTime, loadTimer, syncVars, libVars, catalogVars, writerVars, sourceVars, auxVars>>

\* syncAll(), from the "Full Sync" command or the settings tab's button
syncAll ==
    /\ inProgress < MaxRunning
    /\ \E via \in {"command", "settings"} : running' = [running EXCEPT !.full = @ + 1]
    /\ UNCHANGED <<clock, lastSyncTime, layoutReady, layoutQueue, autoStarts, loadTimer,
                   syncVars, libVars, catalogVars, writerVars, sourceVars, auxVars>>

\* syncRecent(), from the "Recent Sync" command or the settings tab's button
syncRecent ==
    /\ inProgress < MaxRunning
    /\ \E via \in {"command", "settings"} : running' = [running EXCEPT !.recent = @ + 1]
    /\ UNCHANGED <<clock, lastSyncTime, layoutReady, layoutQueue, autoStarts, loadTimer,
                   syncVars, libVars, catalogVars, writerVars, sourceVars, auxVars>>

\* fullSync() / incrementalSync() of a running pass resolves
PassEnds ==
    /\ \E kind \in {"full", "recent"} :
          /\ running[kind] > 0
          /\ running' = [running EXCEPT ![kind] = @ - 1]
    /\ UNCHANGED <<clock, lastSyncTime, layoutReady, layoutQueue, autoStarts, loadTimer,
                   syncVars, libVars, catalogVars, writerVars, sourceVars, auxVars>>

TriggerNext ==
    \/ ClockAdvance
    \/ OnLoadTimer
    \/ AppForeground
    \/ LayoutReady
    \/ syncAll
    \/ syncRecent
    \/ PassEnds

SpecTrigger == Init /\ [][TriggerNext]_vars

(***************************************************************************)
(* MusicIdIndex exercised on its own: any sequence of set calls, queried   *)
(* with any identifiers.                                                   *)
(***************************************************************************)
TestValues == {"u", "v"}

\* the objects handed to set, told apart by identity
TestItems == {"x", "y"}

\* the identifier objects handed to set, has and get: none, one or two kinds carry
\* the value
TestIds ==
    {[k \in KindSet |-> IF k \in {k1, k2} THEN v ELSE ""] :
        k1 \in KindSet, k2 \in KindSet, v \in TestValues \cup {""}}

\* index.set(ids, item)
IndexSet ==
    /\ Len(calls) < MaxSetCalls
    /\ \E ids \in TestIds : \E item \in TestItems :
          /\ testIdx' = IdxSet(testIdx, ids, item)
          /\ calls' = Append(calls, [ids |-> ids, item |-> item])
    /\ UNCHANGED <<syncVars, triggerVars, catalogVars, writerVars, sourceVars, auxVars>>

IndexNext == IndexSet

SpecIndex == Init /\ [][IndexNext]_vars

(***************************************************************************)
(* FrontmatterWriter applied to one note, update after update.             *)
(***************************************************************************)
\* the entities an update is given on day d: the album b1 as saved on one of the days
\* up to d (0: addedAt undefined), with or without sources.in_library
WriterEntities(d) ==
    {[toAlbum("b1", 0, a) EXCEPT !.in_library = l] : a \in 0..d, l \in {"absent", "true"}}

\* settings.default_album_frontmatter, parsed: empty, or a user key and a title
WriterDefaults == {NoDefaults, [custom |-> "dflt", title |-> "Untitled"]}

\* updateAlbumFrontmatter on the note, no artist note being indexed
WriterUpdate ==
    /\ Len(updates) < MaxUpdates
    /\ \E d \in {noteDay, noteDay + 1} : \E e \in WriterEntities(d) :
       \E df \in WriterDefaults :
        /\ d <= MaxNoteDay
        /\ noteDay' = d
        /\ note' = updateFrontmatter("album", note, e,
                                     generateArtistLinks(EmptyIndex, e.artists), UndefLink,
                                     df, d)
        /\ updates' = Append(updates, [addedAt |-> e.addedAt, in_library |-> e.in_library,
                                       defaults |-> df, day |-> d])
    /\ UNCHANGED <<syncVars, triggerVars, libVars, catalogVars, sourceVars, auxVars>>

WriterNext == WriterUpdate

SpecWriter == Init /\ [][WriterNext]_vars

\* the user writes the note by hand before the plugin has touched it: a title, the
\* album's identifiers, a key of their own, with or without a created date
UserAuthors ==
    /\ ~note.has
    /\ updates = <<>>
    /\ \E c \in {0, noteDay} :
        note' = [EmptyFm EXCEPT !.has = TRUE, !.title = "My LP", !.cover = "mine.png",
                                !.aliases = "Mine", !.tracks = [present |-> TRUE, titles |-> <<>>],
                                !.music_ids = getSpotifyIds("b1", 0), !.custom = "mine",
                                !.created = c]
    /\ UNCHANGED <<noteDay, updates, syncVars, triggerVars, libVars, catalogVars, sourceVars, auxVars>>

\* the user adds a key of their own to a note the plugin wrote
UserEdits ==
    /\ note.has
    /\ note.custom # "mine"
    /\ note' = [note EXCEPT !.custom = "mine"]
    /\ UNCHANGED <<noteDay, updates, syncVars, triggerVars, libVars, catalogVars, sourceVars, auxVars>>

NotesNext == WriterUpdate \/ UserAuthors \/ UserEdits

SpecNotes == Init /\ [][NotesNext]_vars

(***************************************************************************)
(* One call of the Library Source against the Web API: the saved           *)
(* collections (paged) and the re-fetch by identifier (batched).           *)
(* A collection of n items is 1..n in the order the service lists it.      *)
(***************************************************************************)
\* the Web API's answer to (limit, offset): the items from position offset + 1 on
Page(n, offset, limit) ==
    [i \in 1..(IF n - offset <= 0 THEN 0 ELSE IF n - offset < limit THEN n - offset
                                           ELSE limit) |-> offset + i]

\* the saved albums that are single-track releases (every third one in the model)
isSingle(item) == item % 3 = 0

\* what the call hands back: getSavedAlbums filters the singles out
mapSaved(tier, items) ==
    IF tier = "album" THEN SelectSeq(items, LAMBDA item : ~isSingle(item)) ELSE items

\* the batch size of getArtistsById / getAlbumsById / getTracksById
batchSizeOf(tier) ==
    CASE tier = "artist" -> ARTISTS_BATCH_SIZE
      [] tier = "album"  -> ALBUMS_BATCH_SIZE
      [] tier = "track"  -> TRACKS_BATCH_SIZE

\* a call starts: getSaved...(options) on a collection of n items, or get...ById(ids)
\* on n identifiers
SourceCall ==
    /\ call.state = "idle"
    /\ \E op \in {"saved", "byId"} : \E tier \in Tiers : \E recentOnly \in BOOLEAN :
       \E n \in 0..MaxRemote :
        /\ op = "byId" => ~recentOnly
        /\ call' = [op |-> op, tier |-> tier, recentOnly |-> recentOnly, state |-> "running"]
        /\ remoteSize' = n
    /\ UNCHANGED <<cursor, requests, allItems, returned, syncVars, triggerVars, libVars,
                   catalogVars, writerVars, auxVars>>

Request(at, limit, sent) == [at |-> at, limit |-> limit, sent |-> sent]

Return(items) ==
    /\ call' = [call EXCEPT !.state = "returned"]
    /\ returned' = items

\* getSavedArtists: one turn of its loop; options is not read. The service answers with
\* next set while items remain, and either way on the last page
FollowedArtistsPage ==
    /\ call.state = "running" /\ call.op = "saved" /\ call.tier = "artist"
    /\ LET items == Page(remoteSize, cursor, API_PAGE_SIZE)
           more == cursor + Len(items) < remoteSize
       IN \E next \in (IF more THEN {TRUE} ELSE BOOLEAN) :
            /\ requests' = Append(requests, Request(cursor, API_PAGE_SIZE, <<>>))
            /\ allItems' = allItems \o items
            /\ IF Len(items) < API_PAGE_SIZE \/ ~next
               THEN Return(allItems') /\ UNCHANGED cursor
               ELSE cursor' = items[Len(items)] /\ UNCHANGED <<call, returned>>
    /\ UNCHANGED <<remoteSize, syncVars, triggerVars, libVars, catalogVars, writerVars, auxVars>>

\* a recent fetch that asks for a whole page instead of the recent window
RecentPageWide ==
    /\ call.state = "running" /\ call.op = "saved" /\ call.tier # "artist"
    /\ call.recentOnly
    /\ LET items == Page(remoteSize, 0, API_PAGE_SIZE)
       IN /\ requests' = Append(requests, Request(0, API_PAGE_SIZE, <<>>))
          /\ allItems' = items
          /\ Return(mapSaved(call.tier, items))
    /\ UNCHANGED <<remoteSize, cursor, syncVars, triggerVars, libVars, catalogVars,
                   writerVars, auxVars>>

\* getRecentSavedAlbums / getRecentSavedTracks: one request of RECENT_SYNC_LIMIT items
RecentPage ==
    /\ call.state = "running" /\ call.op = "saved" /\ call.tier # "artist"
    /\ call.recentOnly
    /\ LET items == Page(remoteSize, 0, RECENT_SYNC_LIMIT)
       IN /\ requests' = Append(requests, Request(0, RECENT_SYNC_LIMIT, <<>>))
          /\ allItems' = items
          /\ Return(mapSaved(call.tier, items))
    /\ UNCHANGED <<remoteSize, cursor, syncVars, triggerVars, libVars, catalogVars,
                   writerVars, auxVars>>

\* a pagination loop that stops on a page of at most API_PAGE_SIZE items
paginateStopsOnFullPage ==
    /\ call.state = "running" /\ call.op = "saved" /\ call.tier # "artist"
    /\ ~call.recentOnly
    /\ LET items == Page(remoteSize, cursor, API_PAGE_SIZE)
       IN /\ requests' = Append(requests, Request(cursor, API_PAGE_SIZE, <<>>))
          /\ allItems' = allItems \o items
          /\ IF Len(items) <= API_PAGE_SIZE
             THEN Return(mapSaved(call.tier, allItems')) /\ UNCHANGED cursor
             ELSE cursor' = cursor + API_PAGE_SIZE /\ UNCHANGED <<call, returned>>
    /\ UNCHANGED <<remoteSize, syncVars, triggerVars, libVars, catalogVars, writerVars, auxVars>>

\* paginateSpotifyApi: one turn of its loop
paginateSpotifyApi ==
    /\ call.state = "running" /\ call.op = "saved" /\ call.tier # "artist"
    /\ ~call.recentOnly
    /\ LET items == Page(remoteSize, cursor, API_PAGE_SIZE)
       IN /\ requests' = Append(requests, Request(cursor, API_PAGE_SIZE, <<>>))
          /\ allItems' = allItems \o items
          /\ IF Len(items) < API_PAGE_SIZE
             THEN Return(mapSaved(call.tier, allItems')) /\ UNCHANGED cursor
             ELSE cursor' = cursor + API_PAGE_SIZE /\ UNCHANGED <<call, returned>>
    /\ UNCHANGED <<remoteSize, syncVars, triggerVars, libVars, catalogVars, writerVars, auxVars>>

\* the identifiers fetchBatch sends: the batch it is given, except in getTracksById,
\* whose callback sends trackIds, the whole list
sentIds(tier, ids, batch) == IF tier = "track" THEN ids ELSE batch

\* batchSpotifyApi: one turn of its loop (the test i < items.length, then one batch);
\* the service answers with one object per identifier sent
batchSpotifyApi ==
    /\ call.state = "running" /\ call.op = "byId"
    /\ LET ids == [i \in 1..remoteSize |-> i]
           batchSize == batchSizeOf(call.tier)
           last == IF cursor + batchSize < remoteSize THEN cursor + batchSize
                   ELSE remoteSize
           batch == SubSeq(ids, cursor + 1, last)
           sent == sentIds(call.tier, ids, batch)
       IN IF cursor < remoteSize
          THEN /\ requests' = Append(requests, Request(cursor, batchSize, sent))
               /\ allItems' = allItems \o sent
               /\ cursor' = cursor + batchSize
               /\ UNCHANGED <<call, returned>>
          ELSE /\ Return(allItems)
               /\ UNCHANGED <<requests, allItems, cursor>>
    /\ UNCHANGED <<remoteSize, syncVars, triggerVars, libVars, catalogVars, writerVars, auxVars>>

SourceNext ==
    SourceCall \/ FollowedArtistsPage \/ RecentPage \/ paginateSpotifyApi \/ batchSpotifyApi

SpecSource == Init /\ [][SourceNext]_vars

(***************************************************************************)
(* LocalTrackManager: findTrackFile calls against one library scan.        *)
(***************************************************************************)
\* cache.get(lookupKey), as the result of findTrackFile
cacheGet(cache, key) == IF key \in cache.keys THEN "hit" ELSE "miss"

\* findTrackFile(uri) runs up to its first suspension. getTrackCache: with no cache,
\* scanLibrary returns the scan in progress or starts one (trackCache = new Map(),
\* scanInProgress = scanFolder(...)) and the call waits for it; with a cache the call
\* goes on to cache.get
findTrackFile ==
    \E c \in 1..MaxFinds : \E key \in LocalFiles :
        /\ finds[c].state = "idle"
        /\ IF ~trackCache.defined
           THEN /\ finds' = [finds EXCEPT ![c] = [state |-> "awaitScan", key |-> key,
                                                  result |-> "none"]]
                /\ IF scanInProgress
                   THEN UNCHANGED <<trackCache, scanInProgress, toScan, scans>>
                   ELSE /\ trackCache' = [defined |-> TRUE, keys |-> {}]
                        /\ scanInProgress' = TRUE
                        /\ toScan' = LocalFiles
                        /\ scans' = scans + 1
           ELSE /\ finds' = [finds EXCEPT ![c] = [state |-> "done", key |-> key,
                                                  result |-> cacheGet(trackCache, key)]]
                /\ UNCHANGED <<trackCache, scanInProgress, toScan, scans>>
        /\ UNCHANGED <<mainVars, tokenVars, mergeVars>>

\* cacheTrack: the metadata of one audio file has been read; trackCache.set(key, file)
cacheTrack ==
    \E file \in toScan :
        /\ scanInProgress
        /\ trackCache' = [trackCache EXCEPT !.keys = @ \cup {file}]
        /\ toScan' = toScan \ {file}
        /\ UNCHANGED <<scanInProgress, scans, finds, mainVars, tokenVars, mergeVars>>

\* scanFolder resolves: scanLibrary's finally clears scanInProgress, and the calls
\* that awaited the scan go on to cache.get
scanResolves ==
    /\ scanInProgress /\ toScan = {}
    /\ scanInProgress' = FALSE
    /\ finds' = [c \in 1..MaxFinds |->
                    IF finds[c].state = "awaitScan"
                    THEN [finds[c] EXCEPT !.state = "done",
                                          !.result = cacheGet(trackCache, finds[c].key)]
                    ELSE finds[c]]
    /\ UNCHANGED <<trackCache, toScan, scans, mainVars, tokenVars, mergeVars>>

LocalNext == findTrackFile \/ cacheTrack \/ scanResolves

SpecLocal == Init /\ [][LocalNext]_vars

(***************************************************************************)
(* TokenManager: the refresh timer, the online handlers and cleanup.       *)
(***************************************************************************)
\* startRefreshTimer: this.refreshInterval = setInterval(...)
startRefreshTimer ==
    /\ liveIntervals' = liveIntervals + 1
    /\ refreshInterval' = TRUE

\* clearRefreshTimer: the timer this.refreshInterval holds, if any, is cleared
clearRefreshTimer ==
    IF refreshInterval
    THEN liveIntervals' = liveIntervals - 1 /\ refreshInterval' = FALSE
    ELSE UNCHANGED <<liveIntervals, refreshInterval>>

\* startTokenRefresh: a new pair of handlers is registered on window and remembered,
\* and the refresh timer is started
startTokenRefresh ==
    /\ ~cleaned
    /\ onlineHandler < MaxStarts
    /\ listeners' = listeners \cup {onlineHandler + 1}
    /\ onlineHandler' = onlineHandler + 1
    /\ startRefreshTimer
    /\ UNCHANGED <<handlersAwaiting, timeouts, cleaned, onlineEvents, mainVars, localVars,
                   mergeVars>>

\* window dispatches online / online-custom: every registered onlineHandler starts and
\* suspends at await refreshTokenFn()
onlineEvent ==
    /\ onlineEvents < MaxOnlineEvents
    /\ listeners # {}
    /\ onlineEvents' = onlineEvents + 1
    /\ handlersAwaiting' = handlersAwaiting + Cardinality(listeners)
    /\ UNCHANGED <<refreshInterval, liveIntervals, listeners, onlineHandler, timeouts,
                   cleaned, mainVars, localVars, mergeVars>>

\* an onlineHandler goes on after its awaits: clearRefreshTimer(), then
\* setTimeout(() => startRefreshTimer(...), TIMEOUT)
onlineHandlerResumes ==
    /\ handlersAwaiting > 0
    /\ handlersAwaiting' = handlersAwaiting - 1
    /\ clearRefreshTimer
    /\ timeouts' = timeouts + 1
    /\ UNCHANGED <<listeners, onlineHandler, cleaned, onlineEvents, mainVars, localVars,
                   mergeVars>>

\* the timeout set by an onlineHandler fires
timeoutFires ==
    /\ timeouts > 0
    /\ timeouts' = timeouts - 1
    /\ startRefreshTimer
    /\ UNCHANGED <<listeners, onlineHandler, handlersAwaiting, cleaned, onlineEvents,
                   mainVars, localVars, mergeVars>>

\* cleanup: clearRefreshTimer(), then the handlers this.offlineHandler and
\* this.onlineHandler hold are removed from window
cleanup ==
    /\ ~cleaned
    /\ cleaned' = TRUE
    /\ clearRefreshTimer
    /\ listeners' = listeners \ {onlineHandler}
    /\ UNCHANGED <<onlineHandler, handlersAwaiting, timeouts, onlineEvents, mainVars,
                   localVars, mergeVars>>

TokenNext ==
    startTokenRefresh \/ onlineEvent \/ onlineHandlerResumes \/ timeoutFires \/ cleanup

SpecToken == Init /\ [][TokenNext]_vars

(***************************************************************************)
(* SpotifyApiClient.getSavedTracks: the merger of saved and playlisted     *)
(* tracks.  enrichedTracks is the Map from track uri to EnrichedTrack.     *)
(***************************************************************************)
TrackUris == {"u1", "u2"}
SourceNames == {"Liked Songs", "P1"}

\* what mergeTrack is called with: savedTrack.track.uri, savedTrack.added_at, playlistName
Observation == [uri : TrackUris, source : SourceNames, added_at : 1..MaxDay]

includes(seq, x) == \E i \in 1..Len(seq) : seq[i] = x

\* a merger that keeps the added_at of the first observation of a track
mergeTrackKeepsFirstDate(tracks, o) ==
    IF o.uri \in DOMAIN tracks
    THEN [tracks EXCEPT ![o.uri] =
            [sources  |-> IF includes(@.sources, o.source)
                          THEN @.sources ELSE Append(@.sources, o.source),
             added_at |-> @.added_at]]
    ELSE tracks @@ (o.uri :> [sources |-> <<o.source>>, added_at |-> o.added_at])

\* the function createTrackMerger returns
mergeTrack(tracks, o) ==
    IF o.uri \in DOMAIN tracks
    THEN [tracks EXCEPT ![o.uri] =
            [sources  |-> IF includes(@.sources, o.source)
                          THEN @.sources ELSE Append(@.sources, o.source),
             added_at |-> IF o.added_at < @.added_at THEN o.added_at ELSE @.added_at]]
    ELSE tracks @@ (o.uri :> [sources |-> <<o.source>>, added_at |-> o.added_at])

\* collectLikedSongs / collectPlaylistTracks hand one more track to mergeTrack
MergeTrack ==
    /\ Len(observations) < MaxObservations
    /\ \E o \in Observation :
          /\ enrichedTracks' = mergeTrack(enrichedTracks, o)
          /\ observations' = Append(observations, o)
    /\ UNCHANGED <<mainVars, localVars, tokenVars>>

MergeNext == MergeTrack

SpecMerge == Init /\ [][MergeNext]_vars

(***************************************************************************)
(* Properties of the sync pass.                                            *)
(***************************************************************************)
\* the last pass has resolved and every promise it started has settled
Settled == phase = "idle" /\ tasks = {}

\* the notes of a tier whose identifiers match the given ones, in a vault
notesMatching(vlt, tier, ids) ==
    {f \in DOMAIN vlt : f.tier = tier /\ vlt[f].has
                        /\ \E k \in KindSet : ids[k] # "" /\ vlt[f].music_ids[k] = ids[k]}

\* the entities of the pass's fetched saved collection that share an identifier with ids
savedMatching(tier, ids) ==
    {e \in saved[tier] : \E k \in KindSet : ids[k] # "" /\ e.ids[k] = ids[k]}

\* C1: when the ingest of tier N+1 is about to begin, no note creation and no
\* frontmatter write of tier N's ingest is still in flight, and tier N's index holds
\* every note created for tier N.
C1_TierBarrier ==
    \A n \in 2..Len(TierOrder) :
        (phase = "ingest" /\ tierNo = n) =>
            /\ ~\E t \in tasks : t.origin = "ingest" /\ t.tier = TierOrder[n - 1]
            /\ \A f \in DOMAIN vault :
                  f.tier = TierOrder[n - 1] => \E it \in index[f.tier].idx.items : it.file = f

\* C2: once a full sync that fetched a track and its album has settled, the track's
\* note stores its album as a link to the album's note whenever the album had no note
\* before the pass.
C2_AlbumLinked ==
    (Settled /\ passKind = "full" /\ result = "ok") =>
        \A e \in saved["track"] : \A f \in notesMatching(vault, "track", e.ids) :
            (/\ e.album.kind = "album"
             /\ savedMatching("album", e.album.ids) # {}
             /\ notesMatching(vault0, "album", e.album.ids) = {})
            => /\ vault[f].album.kind = "link"
               /\ vault[f].album.file \in DOMAIN vault \ DOMAIN vault0

\* C3: a full sync that follows a successful full sync, with nothing changed at the
\* service in between, leaves every note as it was and issues no freshen update.
C3_SecondPassIdle ==
    (passKind = "full" /\ prevOk) =>
        /\ vault = vault0
        /\ ~\E i \in issued : i.origin = "freshen"

C5_IncrementalFrame ==
    passKind = "incremental" =>
        /\ \A f \in DOMAIN vault0 : f \in DOMAIN vault /\ vault[f] = vault0[f]
        /\ \A i \in issued : i.file \notin DOMAIN vault0
        /\ \A t \in tasks : t.file \notin DOMAIN vault0
        /\ \A f \in DOMAIN vault \ DOMAIN vault0 :
              notesMatching(vault0, f.tier, vault[f].music_ids) = {}

\* an incremental sync that fetched an entity a note already represents has settled
C5_Witness ==
    /\ Settled /\ passKind = "incremental" /\ result = "ok"
    /\ \E tier \in Tiers : \E e \in saved[tier] :
          /\ notesMatching(vault0, tier, e.ids) # {}
          /\ notesMatching(vault, tier, e.ids) = notesMatching(vault0, tier, e.ids)

\* C6: no step clears or replaces an identifier a note's music_ids already holds
\* (stated for the notes that no second creation of a batch has taken over).
C6_IdsKept ==
    [][\A f \in DOMAIN vault \ shared' : \A k \in KindSet :
          vault[f].music_ids[k] # "" => vault'[f].music_ids[k] = vault[f].music_ids[k]]_vars

\* C9: every creation is addressed to the base name followed by the first free suffix,
\* no two creations in flight are addressed to the same path, no entity is skipped
\* and no note is taken over by a second entity.
C9_NoSkipNoOverwrite ==
    /\ \A t \in tasks :
          t.kind = "create" =>
              \A n \in 0..(t.file.n - 1) :
                  [tier |-> t.tier, name |-> t.file.name, n |-> n] \in DOMAIN vault
    /\ \A t1, t2 \in tasks :
          (t1.kind = "create" /\ t2.kind = "create" /\ t1 # t2) => t1.file # t2.file
    /\ lost = {}
    /\ shared = {}

\* C10: a pass in which one getSaved... call failed still fetched the other two
\* categories and ran their ingest.
C10_FetchIsolation ==
    (phase = "idle" /\ failedFetch # "none") =>
        /\ fetched = Tiers \ {failedFetch}
        /\ \A t \in fetched : index[t].built

(***************************************************************************)
(* Properties of the triggers.                                             *)
(***************************************************************************)
\* C7: at most one sync pass is in progress at any time.
C7_OnePassAtATime == inProgress <= 1

\* C8: any two passes started by automatic triggers (the timer of onload,
\* visibilitychange, resume, pageshow) start at least SYNC_DEBOUNCE_MS apart.
C8_AutoPassGap ==
    \A i, j \in DOMAIN autoStarts :
        i < j => autoStarts[j] - autoStarts[i] >= SYNC_DEBOUNCE_MS

(***************************************************************************)
(* Properties of the sync pass over a failing storage layer.               *)
(***************************************************************************)
\* C11: a rejected frontmatter write ends neither the pass nor its remaining steps,
\* and the entity of a rejected ingest write is found not represented, by an index
\* that can be built, when the tier is indexed again.
C11_WriteFailureIsolated ==
    \A w \in failedWrites :
        /\ ~w.aborted
        /\ (w.origin = "ingest" /\ Settled) =>
              /\ ~buildIndexThrows(vault, w.file.tier)
              /\ ~IdxHas(buildIndex(vault, w.file.tier), w.ids)

C12_WitnessSilent ==
    /\ phase = "idle" /\ result = "failed" /\ passKind = "incremental" /\ silent
    /\ failureNotices = 0

(***************************************************************************)
(* Properties of MusicIdIndex.                                             *)
(***************************************************************************)
\* the set calls that carried value v for kind k
registrations(k, v) == {i \in DOMAIN calls : v # "" /\ calls[i].ids[k] = v}

\* the item of the last of them
lastRegistered(k, v) ==
    calls[CHOOSE i \in registrations(k, v) : \A j \in registrations(k, v) : j <= i].item

\* a query by one identifier kind of ids
onlyKind(ids, k) == [j \in KindSet |-> IF j = k THEN ids[k] ELSE ""]

\* the priority order as the design states it
statedOrder == <<"spotify_uri", "spotify_id", "upc", "isrc", "mbid">>

\* the positions of statedOrder whose kind has a value in q that some set call registered
registeredKinds(q) ==
    {n \in 1..Len(statedOrder) : registrations(statedOrder[n], q[statedOrder[n]]) # {}}

\* C13: for every entity handed to set, get answers with the same object whichever of
\* the entity's identifier kinds the query carries.
C13_SameRepresentative ==
    \A i \in DOMAIN calls : \A k1, k2 \in KindSet :
        (calls[i].ids[k1] # "" /\ calls[i].ids[k2] # "") =>
            IdxGet(testIdx, onlyKind(calls[i].ids, k1), "")
                = IdxGet(testIdx, onlyKind(calls[i].ids, k2), "")

\* C14: get(ids) is the item last registered under the first kind, in the order
\* spotify_uri, spotify_id, upc, isrc, mbid, whose value in ids is registered; it is
\* missing exactly when no kind of ids is registered.
C14_GetByPriority ==
    \A q \in TestIds :
        IF registeredKinds(q) = {}
        THEN IdxGet(testIdx, q, "") = ""
        ELSE LET k == statedOrder[Min(registeredKinds(q))]
             IN IdxGet(testIdx, q, "") = lastRegistered(k, q[k])

\* a query carries an unregistered spotify_uri and a registered lower kind
C14_Witness ==
    \E q \in TestIds :
        /\ q["spotify_uri"] # ""
        /\ registrations("spotify_uri", q["spotify_uri"]) = {}
        /\ registeredKinds(q) # {}
        /\ IdxGet(testIdx, q, "") \in TestItems

\* C15: has(ids) is true exactly when some kind of ids has a non-empty value that a set
\* call registered under that kind, and exactly when get(ids) returns an item.
C15_HasIffRegistered ==
    \A q \in TestIds :
        /\ IdxHas(testIdx, q) <=> \E k \in KindSet : registrations(k, q[k]) # {}
        /\ IdxHas(testIdx, q) <=> IdxGet(testIdx, q, "") # ""

\* has is true through a kind other than the first one, and false for identifiers
\* whose value is registered under another kind only
C15_Witness ==
    /\ \E q \in TestIds : q["spotify_uri"] = "" /\ IdxHas(testIdx, q)
    /\ \E q \in TestIds : \E k1, k2 \in KindSet :
          /\ k1 # k2 /\ q[k1] # "" /\ registrations(k2, q[k1]) # {}
          /\ ~IdxHas(testIdx, q)

\* C16: after any set calls each kind's map holds exactly the values the calls carried
\* for that kind, each mapped once, to the item of the last call that carried it, and
\* values() is the set of the items handed to set.
C16_SetRegistersAllKinds ==
    /\ \A k \in KindSet :
          /\ \A v \in TestValues \cup {""} :
                /\ MapHas(testIdx.maps[k], v) <=> registrations(k, v) # {}
                /\ registrations(k, v) # {} =>
                      MapGet(testIdx.maps[k], v) = lastRegistered(k, v)
          /\ \A p1, p2 \in testIdx.maps[k] : p1[1] = p2[1] => p1 = p2
    /\ testIdx.items = {calls[i].item : i \in DOMAIN calls}

\* one object was handed to set twice, under two kinds at once
C16_Witness ==
    /\ Len(calls) >= 2
    /\ Cardinality(testIdx.items) = 1
    /\ \E i \in DOMAIN calls :
          Cardinality({k \in KindSet : calls[i].ids[k] # ""}) = 2

(***************************************************************************)
(* Properties of single-track releases (SpecSingle).                       *)
(***************************************************************************)
\* no note stands in the albums folder (the catalog's only release is b1)
noAlbumNote == \A f \in DOMAIN vault : f.tier # "album"

\* the track notes whose frontmatter has been written
writtenTrackNotes == {f \in DOMAIN vault : f.tier = "track" /\ vault[f].has}

\* C17: a track of a single-track release never produces a separate album note, and
\* its track note never carries an album field, whatever passes have run
C17_SingleSuppressed ==
    total_tracks = 1 =>
        /\ noAlbumNote
        /\ \A f \in writtenTrackNotes : vault[f].album.kind = "undefined"

(***************************************************************************)
(* Properties of the notes an ingest creates (Spec).                       *)
(***************************************************************************)
\* the notes created since the running (or last) pass started, frontmatter written
createdByPass == {f \in DOMAIN vault \ DOMAIN vault0 : vault[f].has}

lastUpdate == updates'[Len(updates')]

\* a document without its created and modified dates
withoutDates(fm) == [fm EXCEPT !.created = 0, !.modified = 0]

\* C19: created is set by the first write and never moves later: an update leaves it
\* as it is or moves it to an earlier added-at date
C19_CreatedNeverLater ==
    [][/\ note'.has => note'.created # 0
       /\ note.has /\ note'.created # note.created =>
            /\ note'.created < note.created
            /\ note'.created = lastUpdate.addedAt]_vars

C19_Witness ==
    /\ Len(updates) >= 3
    /\ updates[1].addedAt = 2
    /\ updates[2].addedAt = 1
    /\ updates[3].addedAt = 3
    /\ note.created = 1

\* C20: an update changes modified only if the resulting document differs from the
\* original in a field other than created and modified
C20_ModifiedOnlyOnChange ==
    [][note.has /\ note'.modified # note.modified =>
            withoutDates(note') # withoutDates(note)]_vars

(***************************************************************************)
(* Properties of the fields an update keeps (SpecNotes).                   *)
(***************************************************************************)
\* an update of the note has just run
updated == updates' # updates

\* C21: an update of an existing note leaves the user's own keys as they were and
\* does not replace a title, cover, aliases or tracks value the note already holds
C21_UserFieldsKept ==
    [][updated /\ note.has =>
        /\ note'.custom = note.custom
        /\ note.title # "" => note'.title = note.title
        /\ note.cover # "" => note'.cover = note.cover
        /\ note.aliases # "" => note'.aliases = note.aliases
        /\ note.tracks.present => note'.tracks = note.tracks]_vars

\* C24: an update of a note that has a created field takes nothing from the default
\* frontmatter: the user's key is as before, the title is the stored one (else the
\* entity's)
C24_DefaultsOnlyOnCreate ==
    [][updated /\ note.created # 0 =>
        /\ note'.custom = note.custom
        /\ note'.title = IF note.title # "" THEN note.title ELSE RawName("b1")]_vars

C24_Witness ==
    /\ Len(updates) >= 2
    /\ updates[1].defaults = NoDefaults
    /\ updates[2].defaults # NoDefaults
    /\ note.created # 0
    /\ note.custom = "mine"
    /\ note.title = "LP"

(***************************************************************************)
(* Properties of relationship links (Spec).                                *)
(***************************************************************************)
\* the notes that stood for a catalog object when the last pass started
targetNotes(tier, raw) == notesMatching(vault0, tier, getSpotifyIds(raw, remoteRev))

\* C22: a relationship is stored as the plain title while the target has no note in the
\* index and as a link when it has; a plain artist or album reference is replaced by a
\* link by the freshen step of a later full sync once the target note exists
C22_PlainRefHealed ==
    (Settled /\ passKind = "full" /\ result = "ok") =>
        \A f \in DOMAIN vault0 :
            (vault0[f].has /\ f.tier \in {"album", "track"}) =>
                /\ \A i \in 1..Len(vault0[f].artists) :
                      (/\ vault0[f].artists[i].kind = "plain"
                       /\ targetNotes("artist", RawArtistsOf("b1")[i]) # {})
                      => vault[f].artists[i].kind = "link"
                /\ (/\ f.tier = "track"
                    /\ vault0[f].album.kind = "plain"
                    /\ targetNotes("album", RawAlbumOf("t1")) # {})
                   => vault[f].album.kind = "link"

\* the remote collection of the running call, in the order the service lists it
remoteItems == [i \in 1..remoteSize |-> i]

\* the saved collection a call of the tier is to hand back: albums without the singles
savedCollection(tier) ==
    IF tier = "album" THEN SelectSeq(remoteItems, LAMBDA i : i % 3 # 0) ELSE remoteItems

savedReturned == call.state = "returned" /\ call.op = "saved"

completeFetch == call.op = "saved" /\ (~call.recentOnly \/ call.tier = "artist")

\* C29: a complete-collection fetch issues at most one request more than the
\* collection has full pages, each page starting where the pages before it ended, and
\* when it returns it has collected every remote item exactly once, in page order,
\* also for a collection of an exact multiple of API_PAGE_SIZE items
C29_PagesWholeCollection ==
    completeFetch =>
        /\ Len(requests) <= (remoteSize \div API_PAGE_SIZE) + 1
        /\ \A k \in 1..Len(requests) : requests[k].at = (k - 1) * API_PAGE_SIZE
        /\ call.state = "running" => allItems = SubSeq(remoteItems, 1, Len(allItems))
        /\ call.state = "returned" =>
              /\ allItems = remoteItems
              /\ call.tier # "album" => returned = remoteItems

C29_Witness ==
    /\ completeFetch /\ call.state = "returned" /\ call.tier = "track"
    /\ remoteSize = 2 * API_PAGE_SIZE
    /\ Len(requests) = 3
    /\ Len(returned) = remoteSize

\* the k-th chunk of the identifier list for chunks of size
chunkOf(k, size) ==
    SubSeq(remoteItems, (k - 1) * size + 1,
           IF k * size < remoteSize THEN k * size ELSE remoteSize)

\* C30: a re-fetch by identifier sends, in its k-th call, the k-th chunk of the list
\* and nothing else, chunks being of at most the batch size of the tier, and when it
\* returns every identifier has been requested exactly once
C30_EachCallOwnChunk ==
    call.op = "byId" =>
        /\ \A k \in 1..Len(requests) :
              /\ requests[k].sent = chunkOf(k, requests[k].limit)
              /\ Len(requests[k].sent) <= requests[k].limit
        /\ \A k \in 1..Len(requests) :
              requests[k].limit = (IF call.tier = "album" THEN 20 ELSE 50)
        /\ call.state = "returned" => allItems = remoteItems

statedTiers == <<"artist", "album", "track">>

\* a step of a pass over the three tiers, in the stated tier order
stepOver(step) == [k \in 1..3 |-> <<step, statedTiers[k]>>]

\* the steps of a pass of the kind, in the stated order; a freshen step of a tier ends
\* with the wait for its updates
statedSteps(kind) ==
    IF kind = "full"
    THEN <<<<"freshen", "artist">>, <<"freshenWait", "artist">>,
           <<"freshen", "album">>, <<"freshenWait", "album">>,
           <<"freshen", "track">>, <<"freshenWait", "track">>>>
         \o stepOver("fetch") \o stepOver("ingest") \o stepOver("status")
         \o <<<<"finish", "artist">>>>
    ELSE stepOver("fetch") \o stepOver("ingest") \o <<<<"finish", "artist">>>>

\* C25: a pass goes through its steps in the stated order and in the tier order
\* artists, albums, tracks: a full sync freshens, fetches the complete collections,
\* ingests and updates the library status; an incremental sync fetches with recentOnly
\* and ingests, and has no freshen and no library-status step; a pass leaves the order
\* only by failing
C25_StepOrder ==
    [][(phase' # phase \/ tierNo' # tierNo) =>
        LET steps == statedSteps(passKind')
        IN /\ \/ phase = "idle" /\ <<phase', Tier'>> = steps[1]
              \/ phase # "idle" /\ phase' = "idle" /\ result' = "failed"
              \/ phase = "finish" /\ phase' = "idle" /\ result' = "ok"
              \/ \E i \in 1..(Len(steps) - 1) :
                    steps[i] = <<phase, Tier>> /\ steps[i + 1] = <<phase', Tier'>>
           /\ phase' \in {"fetch", "ingest"} =>
                 fetched' = {statedTiers[j] : j \in
                               1..(IF phase' = "fetch" THEN tierNo' - 1 ELSE 3)}
           /\ phase = "fetch" /\ phase' # "idle" =>
                 saved'[statedTiers[tierNo]] = getSaved(statedTiers[tierNo],
                                                        passKind = "incremental")
    ]_vars

C25_Witness ==
    /\ phase = "finish" /\ passKind = "full" /\ passes = 2
    /\ fetched = Tiers
    /\ \A t \in Tiers : freshened[t] # {}

\* the fields of an entity that have a value
valued(e) ==
    {fld \in {"title", "image", "addedAt", "spotify", "in_library", "artists", "album",
              "tracks"} :
        CASE fld = "title"      -> e.title # ""
          [] fld = "image"      -> e.image # ""
          [] fld = "addedAt"    -> e.addedAt # 0
          [] fld = "spotify"    -> e.spotify # ""
          [] fld = "in_library" -> e.in_library # "absent"
          [] fld = "artists"    -> e.artists # <<>>
          [] fld = "album"      -> e.album.kind = "album"
          [] fld = "tracks"     -> e.tracks # <<>>}
    \cup {k \in KindSet : e.ids[k] # ""}

\* C26: every field that has a value on a fetched entity still has one on the enriched
\* entity that ingest hands to createFile
C26_MergeKeepsFields ==
    \A t \in tasks :
        t.kind = "create" =>
            \A e \in saved[t.tier] :
                getPrimaryId(e.ids) = getPrimaryId(t.entity.ids) /\ e.title = t.entity.title
                    => valued(e) \subseteq valued(t.entity)

\* the lists that hold every element of S once
Orderings(S) ==
    {q \in [1..Cardinality(S) -> S] : \A x \in S : \E i \in 1..Cardinality(S) : q[i] = x}

\* the entities the step at hand passes to enrichArtists / enrichAlbums / enrichTracks
enrichInput ==
    IF phase = "freshen"
    THEN {parseFile(vault, f) : f \in {g \in DOMAIN vault : g.tier = Tier}}
    ELSE newEntitiesOf(saved[Tier], getIndex(Tier))

enrichAtHand == phase \in {"freshen", "ingest"} /\ ~getIndexThrows(Tier)

\* the fetched entities that share an identifier with the item
fetchedMatches(item, refetched) ==
    {e \in refetched : \E k \in KindSet : item.ids[k] # "" /\ item.ids[k] = e.ids[k]}

passComplete == phase = "finish"

\* C28 as stated: a pass that runs to its end has called enrichment exactly once for
\* each of the three categories
C28_EnrichOncePerPass ==
    passComplete => \A t \in Tiers : enrichCalls[t] = 1

\* C28 amended: a pass calls enrichment exactly once per entity category in each step
\* that enriches: an incremental sync once per category (ingest), a full sync twice
\* per category (once in freshen, once in ingest); and never more than that
C28_EnrichOncePerStep ==
    \A t \in Tiers :
        /\ enrichCalls[t] <= (IF passKind = "full" THEN 2 ELSE 1)
        /\ passComplete => enrichCalls[t] = (IF passKind = "full" THEN 2 ELSE 1)
        /\ phase = "fetch" => enrichCalls[t] = (IF passKind = "full" THEN 1 ELSE 0)

C28_Witness ==
    /\ passComplete /\ passKind = "full"
    /\ \A t \in Tiers : enrichCalls[t] = 2

\* C31: no two notes of a tier carry the same value for the same identifier kind
C31_OneNotePerEntity ==
    \A f \in DOMAIN vault : \A g \in DOMAIN vault :
        f # g /\ f.tier = g.tier =>
            \A k \in KindSet :
                vault[f].music_ids[k] # "" => vault[f].music_ids[k] # vault[g].music_ids[k]

\* the fetched tracks have identifier sets of their own: no kind has the same value on two
distinctTrackIds ==
    \A e1 \in saved["track"] : \A e2 \in saved["track"] :
        e1 # e2 => \A k \in KindSet : e1.ids[k] = "" \/ e1.ids[k] # e2.ids[k]

\* once a successful pass has settled, every track it fetched has a note of its own
everySavedTrackHasNote ==
    Settled /\ result = "ok" /\ lost = {} =>
        \A e \in saved["track"] :
            \E f \in DOMAIN vault : f.tier = "track" /\ vault[f].spotify = e.spotify

\* C33: two saved tracks of one multi-track album are normalised to entities with
\* distinct identifier sets, each with the track's own id, and every saved track ends
\* up with its own note
C33_TracksHaveOwnIds ==
    /\ distinctTrackIds
    /\ \A e \in saved["track"] : getPrimaryId(e.ids) = e.spotify
    /\ everySavedTrackHasNote

\* C32: when a pass has shown its 'completed successfully' Notice and resolved, no note
\* creation, frontmatter write or library-status write it started is still in flight
C32_NothingPendingAtSuccess ==
    phase = "idle" /\ result = "ok" => tasks = {}

\* the folder of the tier at hand holds a markdown file without frontmatter, and the
\* step is about to build the index of that tier
indexesBareNote ==
    /\ phase \in {"freshen", "ingest"}
    /\ ~index[Tier].built
    /\ \E f \in DOMAIN vault : f.tier = Tier /\ ~vault[f].has

\* C34: a step that builds the index of a folder holding a file without frontmatter
\* does not end the pass in failure: the file is skipped
C34_BareNoteSkipped ==
    [][indexesBareNote => ~(phase' = "idle" /\ result' = "failed")]_vars

\* C35: every findTrackFile call that has returned answered from the completed scan
\* (every audio file of the folder is found), and no second scan is ever started
C35_FindAfterScan ==
    /\ \A c \in 1..MaxFinds : finds[c].state = "done" => finds[c].result = "hit"
    /\ scans <= 1

\* C36: once cleanup() has run no refresh interval is running: every interval started
\* before it has been cleared and none is started after it
C36_NoIntervalAfterCleanup ==
    cleaned => liveIntervals = 0

\* the observations made so far of one track
observedOf(u) == {observations[i] : i \in {j \in 1..Len(observations) : observations[j].uri = u}}

\* the Map a fresh merger holds after the observations seq, in that order
RECURSIVE mergedInOrder(_)
mergedInOrder(seq) ==
    IF seq = <<>> THEN <<>>
    ELSE mergeTrack(mergedInOrder(SubSeq(seq, 1, Len(seq) - 1)), seq[Len(seq)])

\* the entries and their added_at are the same whatever the order of the observations
orderIndependent ==
    \A q \in Orderings(1..Len(observations)) :
        LET other == mergedInOrder([i \in 1..Len(observations) |-> observations[q[i]]])
        IN  /\ DOMAIN other = DOMAIN enrichedTracks
            /\ \A u \in DOMAIN other : other[u].added_at = enrichedTracks[u].added_at

\* C37: after any sequence of observations the merged Map holds exactly one entry per
\* observed track uri; the entry's sources are the observed source names, each once,
\* its added_at is the least observed one; entries and added_at are the same for every
\* order of the observations
C37_MergeByUri ==
    /\ DOMAIN enrichedTracks = {observations[i].uri : i \in 1..Len(observations)}
    /\ \A u \in DOMAIN enrichedTracks :
          LET e == enrichedTracks[u]
          IN  /\ {e.sources[i] : i \in 1..Len(e.sources)} = {o.source : o \in observedOf(u)}
              /\ \A i \in 1..Len(e.sources) : \A j \in 1..Len(e.sources) :
                    e.sources[i] = e.sources[j] => i = j
              /\ \E o \in observedOf(u) : e.added_at = o.added_at
              /\ \A o \in observedOf(u) : e.added_at <= o.added_at
    /\ orderIndependent

\* a track seen three times, twice from the same source, the earliest date seen last
C37_Witness ==
    /\ Len(observations) = 3
    /\ \A i \in 1..3 : observations[i].uri = "u1"
    /\ observations[1].source = observations[3].source
    /\ observations[2].source # observations[1].source
    /\ observations[3].added_at < observations[1].added_at
    /\ observations[3].added_at < observations[2].added_at
    /\ Len(enrichedTracks["u1"].sources) = 2
    /\ enrichedTracks["u1"].added_at = observations[3].added_at
====
